---- MODULE Spec2Model ----
(***************************************************************************)
(* Request orchestration engine of eve_tools (ESI client).                 *)
(*                                                                         *)
(* ESI.get / ESI.head / ESI.request / ESI.async_request (ESI/esi.py), the  *)
(* retry decorator ESIRequestError.wrapper_retry (ESI/utils.py) and the    *)
(* admission checker ESIRequestChecker (ESI/checker.py), run on one        *)
(* asyncio event loop.  A coroutine step is atomic between two awaits that *)
(* really suspend: the checker's live lookup and the HTTP exchange.        *)
(***************************************************************************)
EXTENDS Integers, Sequences, FiniteSets, TLC

(* ---------------------------------------------------------------------- *)
(* Bounds of the model                                                     *)
(* ---------------------------------------------------------------------- *)
MaxCalls == 2        \* calls of get()/head() in a sequence of calls
MaxBatch == 2        \* requests of one fan-out batch
MaxLoopLen == 2      \* length of an iterable named in async_loop
MaxAttempts == 2     \* attempt budgets 1..MaxAttempts, besides the default
MaxLookupRequests == 4   \* requests of one live lookup of the checker
MaxWindows == 2      \* refresh windows the clock of the token store runs through
MaxFileTokens == 1   \* tokens in the list of one application
MaxExchanges == 2       \* exchanges with the issuer before the last operation begins
MaxComposeCalls == 1    \* calls of ESI.get / ESI.head with a composed request

(* ---------------------------------------------------------------------- *)
(* Program constants                                                       *)
(* ---------------------------------------------------------------------- *)
BAD_REQUEST == 400
NOT_FOUND == 404
ERROR_LIMITED == 420
STATUS_RAISE == {BAD_REQUEST, NOT_FOUND, ERROR_LIMITED}
DefaultAttempts == 3           \* ESIRequestError.__init__(attempts=3)
ErrorRemainInit == 100         \* _global_error_remain = [100]
ErrorRemainDefault == 100      \* ESIResponse.error_remain default
LowWatermark == 5              \* "if self._global_error_remain[0] <= 5"
BlockedStatus == -1            \* ESIResponse(status=-1, ...) of a blocked request
FailStatus == 400              \* raise_for_status: status >= 400
LookupAttempts == 3            \* check_type_id: attempts = 3
BadGateway == 502              \* check_type_id: resp.status == 502
StatusOk == 200                \* check_type_id: resp.status == 200

\* The three values of the ``raises`` keyword: True, False, None.
RAISE == "True"
SUPPRESS == "False"
ADAPTIVE == "None"
Policies == {RAISE, SUPPRESS, ADAPTIVE}
Ellipsis == "..."              \* kwd.get("raises", ...): keyword not given

(* ---------------------------------------------------------------------- *)
(* Values                                                                  *)
(* ---------------------------------------------------------------------- *)
\* What async_request returns: None or an ESIResponse.
NoneRet == [kind |-> "None", status |-> 0, error_remain |-> 0, blocked |-> FALSE]
Resp(status, remain, blocked) ==
    [kind |-> "ESIResponse", status |-> status, error_remain |-> remain, blocked |-> blocked]

\* Exceptions: the type and, for ESIResponseError, the status it carries.
NoExc == [type |-> "none", status |-> 0]
Exc(type, status) == [type |-> type, status |-> status]

\* A keyword value: one value, an iterable of values, or no such keyword.
\* The keywords of a request are kwd.type_id and kwd.page.
Scalar(v) == [iter |-> FALSE, vals |-> <<v>>]
List(vs) == [iter |-> TRUE, vals |-> vs]
Absent == [iter |-> FALSE, vals |-> <<>>]
Has(kwd, name) == kwd[name] # Absent
Kwd(type_id, page) == [type_id |-> type_id, page |-> page]

\* ESIResponse.raise_for_status raises iff status >= 400.
raise_for_status(ret) == ret.status >= FailStatus

(* ---------------------------------------------------------------------- *)
(* Admission checker (ESI/checker.py)                                      *)
(* ---------------------------------------------------------------------- *)
\* Item identifiers used by the requests of the model, by what the reference
\* table (invTypes.csv.bz2) and the live endpoint /universe/types/{type_id}/
\* say about them:
\*   1 absent from the table           2 in the table, unpublished
\*   3 in the table published, unpublished for the live endpoint
\*   4 published for both
TypeIds == 1 .. 4
invTypes_typeID == {2, 3, 4}
invTypes_published(type_id) == type_id \in {3, 4}
live_published(type_id) == type_id = 4

\* Variant of check_type_id_local: the published flag of the table is not read.
check_type_id_membership(type_id) ==
    IF type_id \notin invTypes_typeID THEN "False" ELSE "lookup"

\* check_type_id up to its live lookup: "False" when the table rejects the
\* identifier, "lookup" when the live confirmation is needed.
check_type_id_local(type_id) ==
    IF type_id \notin invTypes_typeID THEN "False"
    ELSE IF ~invTypes_published(type_id) THEN "False"
    ELSE "lookup"

\* Checker cache (cache_check_request): keyed by the identifier alone.  A
\* stored None reads as a miss ("if value is not None").
CacheValues == {"miss", "True", "False", "None"}
cache_hit(value) == value \in {"True", "False"}
BoolStr(b) == IF b THEN "True" ELSE "False"

(* ---------------------------------------------------------------------- *)
(* A state of one coroutine step: st.sh the shared objects, st.tk the task *)
(* ---------------------------------------------------------------------- *)
\*   sh.raises      ESI.__raises            sh.raise_flag  checker.raise_flag
\*   sh.remain      ESIRequestError._global_error_remain[0]
\*   sh.cache       checker cache           sh.clock       completion counter
\*   tk.raises / tk.budget   the decorator's raises / attempts
\*   tk.attempts, tk.success, tk.ret, tk.error   locals of wrapped_retry
\*   tk.blocked     api_request.blocked
\*   tk.pc          "start" | "lookup" | "http" | "call" | "done"
\* History of the task, for the properties:
\*   tk.calls       calls of async_request (transport attempts)
\*   tk.http        HTTP exchanges with the target endpoint
\*   tk.first, tk.first_status   how the first attempt ended
\*   tk.last, tk.last_status     how the latest attempt ended
\*   tk.all_retry   every attempt so far failed with a retryable failure
\*   tk.rejected    the checker rejected the request in the current attempt
\*   tk.sent_rejected   an exchange was made in an attempt the checker rejected
\*   tk.remain_at_reject   the shared error budget when the checker last
\*                  rejected the request
\*   tk.done_at     the task's rank among the completions of the call
\*   tk.last_remain the x-esi-error-limit-remain of the latest response
\* The check of the current attempt:
\*   tk.lookup_attempts, tk.lookup_valid   locals of check_type_id
\*   tk.strict      the raise_flag the checker was called with
\*   tk.check_end   how the check ended: "True", "False", "None", "raised"
\*   tk.lookups     live lookups the check began
\*   tk.lookup_requests, tk.lookup_last   requests of the latest lookup and
\*                  the status of its latest response
\*   tk.stored          the value this attempt's live lookup stored in the cache
\*   tk.after_checked   an earlier check of the identifier had returned
\*   sh.checked     identifiers for which check_type_id has returned
\*   sh.writes      the values cache.set has stored for an identifier

\* The locals of wrapped_retry end with the coroutine.
Ended(tk, result) ==
    [tk EXCEPT !.pc = "done", !.result = result, !.attempts = 0, !.success = FALSE,
               !.ret = NoneRet, !.error = NoExc, !.rejected = FALSE]

\* ESI.request returns: line 420 resets ESI.__raises, the (disabled)
\* formatter hands the response on.
request_return(st, ret) ==
    [sh |-> [st.sh EXCEPT !.raises = ADAPTIVE, !.clock = @ + 1],
     tk |-> [Ended(st.tk, [kind |-> "returned", ret |-> ret, exc |-> NoExc])
                EXCEPT !.done_at = st.sh.clock + 1]]

\* An exception leaves wrapped_retry and ESI.request: line 420 is not reached.
request_raise(st, exc) ==
    [sh |-> [st.sh EXCEPT !.clock = @ + 1],
     tk |-> [Ended(st.tk, [kind |-> "raised", ret |-> NoneRet, exc |-> exc])
                EXCEPT !.done_at = st.sh.clock + 1]]

(* ---------------------------------------------------------------------- *)
(* Retry decorator (ESI/utils.py, wrapped_retry)                           *)
(* ---------------------------------------------------------------------- *)
\* Variants of final_disposition: the raise policy treated as the adaptive
\* one, and the watermark compared strictly.
final_disposition_quiet(st) ==
    IF st.tk.raises = SUPPRESS THEN request_return(st, NoneRet)
    ELSE IF st.sh.remain <= LowWatermark THEN request_raise(st, Exc("RuntimeError", 0))
    ELSE request_return(st, st.tk.ret)
final_disposition_strict(st) ==
    IF st.tk.raises = RAISE
    THEN request_raise(st, IF st.tk.error = NoExc THEN Exc("TypeError", 0) ELSE st.tk.error)
    ELSE IF st.tk.raises = SUPPRESS
    THEN request_return(st, NoneRet)
    ELSE IF st.sh.remain < LowWatermark
    THEN request_raise(st, Exc("RuntimeError", 0))
    ELSE request_return(st, st.tk.ret)

\* Lines 109-120: the disposition once attempts == 0.
final_disposition(st) ==
    IF st.tk.raises = RAISE
    THEN \* raise error from None (raise None is a TypeError)
         request_raise(st, IF st.tk.error = NoExc THEN Exc("TypeError", 0) ELSE st.tk.error)
    ELSE IF st.tk.raises = SUPPRESS
    THEN request_return(st, NoneRet)
    ELSE IF st.sh.remain <= LowWatermark
    THEN \* a bare raise outside the except blocks
         request_raise(st, Exc("RuntimeError", 0))
    ELSE request_return(st, st.tk.ret)

\* Line 109 and the loop condition of line 73.
loop_or_finish(st) ==
    IF st.tk.attempts = 0 THEN final_disposition(st)
    ELSE IF ~st.tk.success /\ st.tk.attempts > 0 THEN [st EXCEPT !.tk.pc = "call"]
    ELSE request_return(st, st.tk.ret)

\* Variant: every status is retried.
attempts_after_status_retry(attempts, status) == attempts - 1

\* Lines 83-86: the attempts left after an ESIResponseError with this status.
attempts_after_status(attempts, status) ==
    IF status \in STATUS_RAISE THEN 0 ELSE attempts - 1

\* Variant: every transport fault is fatal.
attempts_after_fault_fatal(attempts, fault) == 0

\* Lines 94 and 100: the attempts left after a transport fault.
attempts_after_fault(attempts, fault) ==
    IF fault = "timeout" THEN 0 ELSE attempts - 1

\* The attempt that just ended, added to the history of the task.
Noted(tk, how, status, retryable) ==
    [tk EXCEPT !.first = IF tk.calls = 1 THEN how ELSE @,
               !.first_status = IF tk.calls = 1 THEN status ELSE @,
               !.last = how,
               !.last_status = status,
               !.all_retry = @ /\ retryable]

\* Lines 76-92: func returned ret.
retry_on_return(st, ret) ==
    LET s1 == [st EXCEPT !.tk.ret = ret,
                         !.tk.success = (ret # NoneRet /\ ret.status < FailStatus)]
    IN  IF ret = NoneRet
        THEN loop_or_finish([s1 EXCEPT !.tk.attempts = 0])
        ELSE LET s2 == [s1 EXCEPT !.sh.remain = ret.error_remain]
             IN  IF raise_for_status(ret)
                 THEN loop_or_finish(
                        [s2 EXCEPT !.tk.attempts = attempts_after_status(@, ret.status),
                                   !.sh.remain = @ - 1,
                                   !.tk.error = Exc("ESIResponseError", ret.status)])
                 ELSE loop_or_finish(s2)

\* Variant of retry_on_fault: a transport fault costs one unit of the shared
\* error budget.
retry_on_fault_counted(st, fault) ==
    LET exc == Exc(IF fault = "timeout" THEN "TimeoutError" ELSE "ServerDisconnectedError", 0)
        s1 == [st EXCEPT !.tk.attempts = attempts_after_fault(@, fault),
                         !.tk.error = exc,
                         !.sh.remain = @ - 1]
    IN  IF st.tk.raises = ADAPTIVE /\ (fault = "timeout" \/ s1.tk.attempts = 0)
        THEN request_raise(s1, exc)
        ELSE loop_or_finish(s1)

\* Lines 93-106: func raised TimeoutError or ServerDisconnectedError.
retry_on_fault(st, fault) ==
    LET exc == Exc(IF fault = "timeout" THEN "TimeoutError" ELSE "ServerDisconnectedError", 0)
        s1 == [st EXCEPT !.tk.attempts = attempts_after_fault(@, fault),
                         !.tk.error = exc]
    IN  IF st.tk.raises = ADAPTIVE /\ (fault = "timeout" \/ s1.tk.attempts = 0)
        THEN request_raise(s1, exc)
        ELSE loop_or_finish(s1)

(* ---------------------------------------------------------------------- *)
(* Session recorder (ESI/utils.py, _SessionRecord and _session_recorder)   *)
(* ---------------------------------------------------------------------- *)
\* An Expires header is the time it names, in seconds; NoExpires is a
\* response without the header (resp.expires is None).
NoExpires == 0
\* datetime(*parsedate(expires)[:6]): the time the header names.
expires_dt(expires) == expires
\* The Expires header of the outcome of an exchange.
expires_of(o) == IF "expires" \in DOMAIN o THEN o.expires ELSE NoExpires
\* time_finish - time_start of a recorded get() or head(), in units.
CallElapsed == 1

\* _SessionRecord(): lines 154-159.
SessionRecord ==
    [requests |-> 0, timer |-> 0, expires |-> NoExpires,
     requests_failed |-> 0, requests_succeed |-> 0, requests_blocked |-> 0]

\* _SessionRecord.clear(field): lines 164-180.  NoField is field = None.
NoField == "None"
RecordFields == {"expires", "requests", "timer"}
record_clear(record, field) ==
    IF field = NoField THEN SessionRecord
    ELSE IF field = "expires" THEN [record EXCEPT !.expires = NoExpires]
    ELSE IF field = "requests"
    THEN [record EXCEPT !.requests = 0, !.requests_failed = 0,
                        !.requests_succeed = 0, !.requests_blocked = 0]
    ELSE IF field = "timer" THEN [record EXCEPT !.timer = 0]
    ELSE record

\* Variant of record_expires: the latest Expires is kept.
record_expires_latest(record_expires_, resp_expires) ==
    IF resp_expires = NoExpires THEN record_expires_
    ELSE IF record_expires_ = NoExpires THEN resp_expires
    ELSE IF expires_dt(resp_expires) > expires_dt(record_expires_) THEN resp_expires
    ELSE record_expires_

\* _session_record_fill, lines 296-305: record.expires after a response
\* with this Expires header ("keep the earliest expire").
record_expires(record_expires_, resp_expires) ==
    IF resp_expires = NoExpires THEN record_expires_
    ELSE IF record_expires_ = NoExpires THEN resp_expires
    ELSE IF expires_dt(resp_expires) < expires_dt(record_expires_) THEN resp_expires
    ELSE record_expires_

\* A field is filled by a recorder decorated with these fields and exclude
\* (lines 279, 293, 297); NoField is an argument that was not given.
field_filled(name, fields, exclude) ==
    (fields = NoField \/ name = fields) /\ (exclude = NoField \/ name # exclude)

\* Variant of session_record_fill: a response is counted as a success
\* whether it failed or not.
session_record_fill_twice(record, fields, exclude, resp, resp_expires, failed, blocked) ==
    LET r1 == IF field_filled("requests", fields, exclude)
              THEN [record EXCEPT
                      !.requests = @ + 1,
                      !.requests_blocked =
                          IF (resp = NoneRet /\ ~failed) \/ blocked THEN @ + 1 ELSE @,
                      !.requests_failed = IF failed THEN @ + 1 ELSE @,
                      !.requests_succeed =
                          IF resp # NoneRet /\ ~blocked THEN @ + 1 ELSE @]
              ELSE record
        r2 == IF field_filled("timer", fields, exclude)
              THEN [r1 EXCEPT !.timer = @ + CallElapsed] ELSE r1
    IN  IF field_filled("expires", fields, exclude) /\ resp # NoneRet
        THEN [r2 EXCEPT !.expires = record_expires(@, resp_expires)]
        ELSE r2

\* _session_record_fill(_self, resp, t_s, t_f, failed, blocked), lines
\* 261-307, of a recorder decorated with these fields and exclude.
session_record_fill(record, fields, exclude, resp, resp_expires, failed, blocked) ==
    LET r1 == IF field_filled("requests", fields, exclude)
              THEN [record EXCEPT
                      !.requests = @ + 1,
                      !.requests_blocked =
                          IF (resp = NoneRet /\ ~failed) \/ blocked THEN @ + 1 ELSE @,
                      !.requests_failed = IF failed THEN @ + 1 ELSE @,
                      !.requests_succeed =
                          IF resp # NoneRet /\ ~failed /\ ~blocked THEN @ + 1 ELSE @]
              ELSE record
        r2 == IF field_filled("timer", fields, exclude)
              THEN [r1 EXCEPT !.timer = @ + CallElapsed] ELSE r1
    IN  IF field_filled("expires", fields, exclude) /\ resp # NoneRet
        THEN [r2 EXCEPT !.expires = record_expires(@, resp_expires)]
        ELSE r2

\* The history of the recorder, for the properties:
\*   sh.record_log.seen       the Expires headers of the responses recorded
\*                            since record.expires was last cleared
\*   sh.record_log.late       an attempt was recorded while recording was
\*                            stopped
\*   sh.record_log.cleared    the field of the latest clear ("none": no clear)
\*   tk.record_on   _record_session as the current attempt read it (line 215)
\*   tk.fills       the fills made for the attempts of the task
\*   tk.unrecorded  attempts of the task that ended without a fill because
\*                  recording was stopped when they began
NoRecordLog == [seen |-> {}, late |-> FALSE, cleared |-> "none"]

\* An attempt ended and was recorded or not.
AttemptRecorded(st, resp_expires, has_resp) ==
    [st EXCEPT !.tk.fills = @ + 1,
               !.sh.record_log.late = @ \/ ~st.sh.record_session,
               !.sh.record_log.seen =
                   IF has_resp /\ resp_expires # NoExpires THEN @ \cup {resp_expires} ELSE @]
AttemptUnrecorded(st) ==
    [st EXCEPT !.tk.unrecorded = @ + 1]

\* Variant of session_recorder_return: nothing is recorded for an attempt
\* after which the retry decorator calls again.
session_recorder_return_final(st, resp, resp_expires) ==
    IF ~st.tk.record_on THEN AttemptUnrecorded(st)
    ELSE IF resp # NoneRet /\ raise_for_status(resp)
    THEN IF attempts_after_status(st.tk.attempts, resp.status) > 0
         THEN st
         ELSE [AttemptRecorded(st, resp_expires, TRUE) EXCEPT
                 !.sh.record = session_record_fill(@, NoField, "timer", resp, resp_expires,
                                                   TRUE, FALSE)]
    ELSE [AttemptRecorded(st, resp_expires, resp # NoneRet) EXCEPT
            !.sh.record = session_record_fill(@, NoField, "timer", resp, resp_expires, FALSE,
                                              resp = NoneRet \/ resp.blocked)]

\* _session_recorder_wrapped_async of async_request (exclude="timer",
\* esi.py line 426), lines 213-239, when func returned resp: nothing is
\* recorded while recording was stopped at the call; resp.raise_for_status()
\* makes the fill one of a failure, and resp is returned in every case.
session_recorder_return(st, resp, resp_expires) ==
    IF ~st.tk.record_on THEN AttemptUnrecorded(st)
    ELSE IF resp # NoneRet /\ raise_for_status(resp)
    THEN [AttemptRecorded(st, resp_expires, TRUE) EXCEPT
            !.sh.record = session_record_fill(@, NoField, "timer", resp, resp_expires,
                                              TRUE, FALSE)]
    ELSE [AttemptRecorded(st, resp_expires, resp # NoneRet) EXCEPT
            !.sh.record = session_record_fill(@, NoField, "timer", resp, resp_expires, FALSE,
                                              resp = NoneRet \/ resp.blocked)]

\* The same, lines 226-229, when func raised one of ERROR_CATCHED: the
\* failure is recorded with resp = None and the exception raised again.
session_recorder_fault(st) ==
    IF ~st.tk.record_on THEN AttemptUnrecorded(st)
    ELSE [AttemptRecorded(st, NoExpires, FALSE) EXCEPT
            !.sh.record = session_record_fill(@, NoField, "timer", NoneRet, NoExpires,
                                              TRUE, FALSE)]

\* _session_recorder_wrapped_normal of get() and head() (fields="timer",
\* esi.py lines 156 and 293), lines 241-259: the record after the call
\* returned or raised exc.  Only ERROR_CATCHED is caught: any other
\* exception leaves the wrapper without a fill.
session_recorder_wrapped_normal(record, record_session_, raised, exc) ==
    IF ~record_session_ THEN record
    ELSE IF raised /\ exc.type \notin {"TimeoutError", "ServerDisconnectedError"}
    THEN record
    ELSE session_record_fill(record, "timer", NoField, NoneRet, NoExpires, raised, FALSE)

(* ---------------------------------------------------------------------- *)
(* Transport attempt (ESI/esi.py, async_request) with the checker call     *)
(* ---------------------------------------------------------------------- *)
\* Lines 467-500: the HTTP exchange with the target endpoint begins.
http_send(st) ==
    [st EXCEPT !.tk.pc = "http",
               !.tk.http = @ + 1,
               !.tk.sent_rejected = @ \/ st.tk.rejected]

\* esi.py lines 452-464: what async_request does with a request the checker
\* rejected without raising; ESI.__raises is read as it is now.
blocked_request(st) ==
    IF st.sh.raises = SUPPRESS
    THEN retry_on_return(
            session_recorder_return([st EXCEPT !.tk = Noted(@, "None", 0, FALSE)],
                                    NoneRet, NoExpires),
            NoneRet)
    ELSE IF st.sh.raises = ADAPTIVE
    THEN retry_on_return(
            session_recorder_return([st EXCEPT !.tk = Noted(@, "envelope", 0, FALSE)],
                                    Resp(BlockedStatus, ErrorRemainDefault, TRUE), NoExpires),
            Resp(BlockedStatus, ErrorRemainDefault, TRUE))
    ELSE http_send(st)          \* "should have been raised in RequestChecker"

\* checker.py lines 111-119 with the verdict of the checks in hand; the
\* checker reads its raise_flag as it is now, not as it was at the call.
check_finish(st, valid, error) ==
    IF valid THEN http_send([st EXCEPT !.tk.check_end = "True"])
    ELSE LET s1 == [st EXCEPT !.tk.blocked = TRUE, !.tk.rejected = TRUE,
                              !.tk.remain_at_reject = st.sh.remain,
                              !.tk.check_end = st.sh.raise_flag]
         IN  IF s1.sh.raise_flag = RAISE /\ error # NoExc
             THEN request_raise([s1 EXCEPT !.tk = Noted(@, "raised", 0, FALSE),
                                           !.tk.check_end = "raised"], error)
             ELSE IF s1.sh.raise_flag = RAISE
             THEN http_send(s1)          \* the checker returned True
             ELSE blocked_request(s1)

\* esi.py lines 450-451 and checker.py lines 65-109, up to the first await
\* that suspends: func is called for one more attempt.
async_request_call(st) ==
    LET s0 == [st EXCEPT !.tk.calls = @ + 1, !.tk.rejected = FALSE,
                         !.tk.strict = "none", !.tk.check_end = "none",
                         !.tk.lookups = 0, !.tk.after_checked = FALSE,
                         !.tk.stored = "none",
                         !.tk.record_on = st.sh.record_session]
        s1 == [s0 EXCEPT !.sh.raise_flag = st.sh.raises, !.tk.strict = st.sh.raises]
    IN  IF ~st.tk.checks THEN http_send(s0)
        ELSE IF ~st.tk.green THEN check_finish(s1, FALSE, Exc("EndpointDownError", 0))
        ELSE IF ~Has(st.tk.kwd, "type_id") THEN check_finish(s1, TRUE, NoExc)
        ELSE LET type_id == st.tk.kwd["type_id"].vals[1]
                 cached == st.sh.cache[type_id]
                 s2 == [s1 EXCEPT !.tk.after_checked = st.sh.checked[type_id]]
                 s3 == [s2 EXCEPT !.sh.checked[type_id] = TRUE]
             IN  IF cache_hit(cached)
                 THEN check_finish(s3, cached = "True",
                        IF cached = "True" THEN NoExc ELSE Exc("InvalidRequestError", 0))
                 ELSE IF check_type_id_local(type_id) = "False"
                 THEN check_finish([s3 EXCEPT !.sh.cache[type_id] = "False",
                                              !.sh.writes[type_id] = @ \cup {"False"}],
                                   FALSE, Exc("InvalidRequestError", 0))
                 ELSE [s2 EXCEPT !.tk.pc = "lookup",
                                 !.tk.lookup_attempts = LookupAttempts,
                                 !.tk.lookup_valid = "True",
                                 !.tk.lookups = @ + 1,
                                 !.tk.lookup_requests = 1,
                                 !.tk.lookup_last = 0]

\* checker.py line 155 and utils.py lines 335-337: the live lookup ended
\* with valid ("True", "False" or "None"); the value is stored in the cache
\* and the check ends.
lookup_done(st, valid) ==
    LET type_id == st.tk.kwd["type_id"].vals[1]
    IN  check_finish([st EXCEPT !.sh.cache[type_id] = valid,
                                !.sh.checked[type_id] = TRUE,
                                !.sh.writes[type_id] = @ \cup {valid},
                                !.tk.stored = valid,
                                !.tk.lookup_attempts = 0,
                                !.tk.lookup_valid = "True"],
                     valid = "True",
                     IF valid = "True" THEN NoExc ELSE Exc("InvalidRequestError", 0))

\* checker.py lines 141-153: the live endpoint answered one request of the
\* lookup with this status.  A 502 costs an attempt; a 200 ends the loop
\* with the published flag of the body; any other answer leaves
\* valid = data.get("published") = None and the loop goes on.
lookup_response(st, status) ==
    IF status = BadGateway
    THEN IF st.tk.lookup_attempts - 1 > 0
         THEN [st EXCEPT !.tk.lookup_attempts = @ - 1,
                         !.tk.lookup_requests = @ + 1,
                         !.tk.lookup_last = status]
         ELSE lookup_done([st EXCEPT !.tk.lookup_last = status], st.tk.lookup_valid)
    ELSE IF status = StatusOk
    THEN lookup_done([st EXCEPT !.tk.lookup_last = status],
                     BoolStr(live_published(st.tk.kwd["type_id"].vals[1])))
    ELSE [st EXCEPT !.tk.lookup_valid = "None",
                    !.tk.lookup_requests = @ + 1,
                    !.tk.lookup_last = status]

\* A status is a retryable failure: an error status outside STATUS_RAISE.
retryable_status(status) == status >= FailStatus /\ status \notin STATUS_RAISE

\* The HTTP exchange ended: a response (with the server's
\* x-esi-error-limit-remain), a timeout or a disconnect.
http_done(st, o) ==
    IF o.fault # "none"
    THEN retry_on_fault(
            session_recorder_fault(
                [st EXCEPT !.tk = Noted(@, o.fault, 0, o.fault = "disconnected")]),
            o.fault)
    ELSE retry_on_return(
            session_recorder_return([st EXCEPT !.tk = Noted(@, "status", o.status,
                                                            retryable_status(o.status)),
                                               !.tk.last_remain = o.remain],
                                    Resp(o.status, o.remain, st.tk.blocked), expires_of(o)),
            Resp(o.status, o.remain, st.tk.blocked))

\* A coroutine runs until it suspends or ends.
RECURSIVE Run(_)
Run(st) == IF st.tk.pc = "call" THEN Run(async_request_call(st)) ELSE st

\* esi.py lines 376-416: ESI.request up to the call of the decorated
\* async_request; line 406 stores the policy in the shared ESI.__raises and
\* line 416 hands that value to a new ESIRequestError.
request_start(st) ==
    Run([st EXCEPT !.sh.raises = st.tk.policy,
                   !.tk.raises = st.tk.policy,
                   !.tk.attempts = st.tk.budget,
                   !.tk.pc = "call"])

(* ---------------------------------------------------------------------- *)
(* Keyword arguments and the fan-out of ESI.get                            *)
(* ---------------------------------------------------------------------- *)

\* esi.py lines 244-270: the keyword sets of the requests that
\* recursive_looper(async_loop, kwd) creates, in the order it creates them.
RECURSIVE recursive_looper(_, _), loop_values(_, _, _, _)
recursive_looper(async_loop, kwd) ==
    IF async_loop = <<>> THEN <<kwd>>
    ELSE loop_values(Tail(async_loop), kwd, Head(async_loop), kwd[Head(async_loop)].vals)
\* Variant of loop_values: only the first value of an iterable is used.
loop_values_first(async_loop_cpy, kwd, curr, values) ==
    IF values = <<>> THEN <<>>
    ELSE recursive_looper(async_loop_cpy, [kwd EXCEPT ![curr] = Scalar(Head(values))])

loop_values(async_loop_cpy, kwd, curr, values) ==
    IF values = <<>> THEN <<>>
    ELSE recursive_looper(async_loop_cpy, [kwd EXCEPT ![curr] = Scalar(Head(values))])
         \o loop_values(async_loop_cpy, kwd, curr, Tail(values))

\* esi.py lines 264-267: recursive_looper raises ValueError when a name of
\* async_loop is no keyword or its value is not iterable.  The test runs at
\* every level before the level's loop, so before any request is created.
RECURSIVE looper_raises(_, _)
looper_raises(async_loop, kwd) ==
    IF async_loop = <<>> THEN FALSE
    ELSE LET curr == Head(async_loop)
         IN  \/ ~Has(kwd, curr)
             \/ ~kwd[curr].iter
             \/ /\ kwd[curr].vals # <<>>
                /\ looper_raises(Tail(async_loop),
                                 [kwd EXCEPT ![curr] = Scalar(Head(kwd[curr].vals))])

\* Variant of get_raises: the default is the raise policy for every call.
get_raises_single(raises_kw, async_loop) ==
    IF raises_kw = Ellipsis THEN RAISE ELSE raises_kw

\* esi.py lines 220-227 and 335: the policy of a call whose ``raises``
\* keyword is raises_kw (Ellipsis when not given).
get_raises(raises_kw, async_loop) ==
    IF raises_kw = Ellipsis
    THEN IF async_loop # <<>> THEN ADAPTIVE ELSE RAISE
    ELSE raises_kw
head_raises(raises_kw) == IF raises_kw = Ellipsis THEN RAISE ELSE raises_kw

\* Variants of collect_results: None is kept; the order is reversed.
collect_results_all(results) == results
collect_results_reversed(results) ==
    LET kept == SelectSeq(results, LAMBDA r : r # NoneRet)
    IN  [i \in 1 .. Len(kept) |-> kept[Len(kept) + 1 - i]]

\* esi.py lines 285-291: the results of the tasks that are not None, in the
\* order of the task list.
RECURSIVE collect_results(_)
collect_results(results) ==
    IF results = <<>> THEN <<>>
    ELSE IF Head(results) # NoneRet
         THEN <<Head(results)>> \o collect_results(Tail(results))
         ELSE collect_results(Tail(results))

(* ---------------------------------------------------------------------- *)
(* The token store (ESITokens)                                             *)
(* ---------------------------------------------------------------------- *)
\* self._update_time: seconds after which a token is refreshed.
update_time == 1198

\* The characters a token can belong to; character names are unique.
CharacterNames == {"A", "B"}
character_id(character_name) == IF character_name = "A" THEN 1 ELSE 2
\* refresh() called without a character name.
NoName == "None"

\* The dataclass Token of one application (clientId is the store's).  Access
\* and refresh tokens are the serial of the exchange that issued them; 0 is
\* a token read from the token file.
Token(access_token, retrieve_time, refresh_token, character_name) ==
    [access_token |-> access_token, retrieve_time |-> retrieve_time,
     refresh_token |-> refresh_token, character_name |-> character_name,
     character_id |-> character_id(character_name)]

\* What an operation of the store returned or raised.
Returned(kind) == [kind |-> kind, index |-> 0]
ReturnedToken(i) == [kind |-> "token", index |-> i]

\* The answers of the issuer to a refresh exchange: new tokens, an error
\* body, or a body that lacks the refresh token.
IssuerAnswers == {"ok", "error", "incomplete"}
\* Seconds that pass between the call of an exchange and its answer.
ExchangeDelays == {0, 1}
RefreshAnswers == [answer : IssuerAnswers, delay : ExchangeDelays]
GenerateAnswers == [answer : {"ok", "error"}, character : CharacterNames,
                    delay : ExchangeDelays]

\* sso/refresh_token.py: the body of the issuer's answer as a dict, with
\* retrieve_time set to the time the answer was received.
refresh_token(serial, answer, received) ==
    [keys |-> IF answer = "ok"
              THEN {"access_token", "expires_in", "refresh_token", "retrieve_time"}
              ELSE IF answer = "error"
              THEN {"error", "error_description", "retrieve_time"}
              ELSE {"access_token", "expires_in", "retrieve_time"},
     access_token |-> IF answer = "error" THEN 0 ELSE serial,
     refresh_token |-> IF answer = "ok" THEN serial ELSE 0,
     retrieve_time |-> received]

\* Variant of check_refresh_token: every answer is taken as new tokens.
check_refresh_token_any(new_refresh_token) == TRUE

\* ESITokens.__check_refresh_token
check_refresh_token(new_refresh_token) ==
    /\ "error" \notin new_refresh_token.keys
    /\ "access_token" \in new_refresh_token.keys
    /\ "retrieve_time" \in new_refresh_token.keys
    /\ "refresh_token" \in new_refresh_token.keys

\* Variant of needs_refresh: every token is refreshed.
needs_refresh_always(time, token_) == TRUE

\* token.py line 155: the token is refreshed unless
\* (int(time.time()) - token_.retrieve_time) < self._update_time.
needs_refresh(time, token_) == ~((time - token_.retrieve_time) < update_time)

\* token.py lines 163-165 and 204-206: the token takes the new values.
token_update(token_, new_token_dict) ==
    [token_ EXCEPT !.access_token = new_token_dict.access_token,
                   !.retrieve_time = new_token_dict.retrieve_time,
                   !.refresh_token = new_token_dict.refresh_token]

\* One exchange with the issuer, as the issuer saw it.
Exchange(kind, cid, sent, ok) ==
    [kind |-> kind, character_id |-> cid, sent |-> sent, ok |-> ok]

\* The state of an operation of the store: the token list, the issuer's
\* log, the time, and what the operation did: what it returned, what its
\* refresh returned, the refresh exchanges it made, the token whose
\* exchange the issuer did not answer with new tokens and that answer, and
\* whether it called generate.
StoreState(store, log, time) ==
    [tokens |-> store, log |-> log, now |-> time, ret |-> Returned("none"),
     refresh_ret |-> "none", exchanges |-> 0, failed |-> 0, failed_answer |-> "none",
     generated |-> FALSE]

\* token.py lines 154-169: the loop of refresh over the tokens from i on;
\* answers[i] is the issuer's answer if token i is exchanged.
RECURSIVE refresh_loop(_, _, _, _)
refresh_loop(rs, cname, i, answers) ==
    IF i > Len(rs.tokens)
    THEN [rs EXCEPT !.ret = Returned("True"), !.refresh_ret = "True"]
    ELSE LET token_ == rs.tokens[i]
         IN  IF cname # NoName /\ token_.character_name # cname
             THEN refresh_loop(rs, cname, i + 1, answers)
             ELSE IF ~needs_refresh(rs.now, token_)
             THEN refresh_loop(rs, cname, i + 1, answers)
             ELSE LET received == rs.now + answers[i].delay
                      new_token_dict == refresh_token(Len(rs.log) + 1,
                                                      answers[i].answer, received)
                      r1 == [rs EXCEPT
                               !.log = Append(@, Exchange("refresh", token_.character_id,
                                                          rs.now, answers[i].answer = "ok")),
                               !.now = received,
                               !.exchanges = @ + 1,
                               !.failed = IF answers[i].answer = "ok" THEN @ ELSE i,
                               !.failed_answer = IF answers[i].answer = "ok" THEN @
                                                 ELSE answers[i].answer]
                  IN  IF ~check_refresh_token(new_token_dict)
                      THEN [r1 EXCEPT !.ret = Returned("False"), !.refresh_ret = "False"]
                      ELSE refresh_loop(
                             [r1 EXCEPT !.tokens[i] = token_update(token_, new_token_dict)],
                             cname, i + 1, answers)

\* ESITokens.refresh(cname)
refresh(rs, cname, answers) ==
    IF \A i \in 1 .. Len(rs.tokens) :
           cname # NoName /\ rs.tokens[i].character_name # cname
    THEN [rs EXCEPT !.ret = Returned("KeyError"), !.refresh_ret = "KeyError"]
    ELSE refresh_loop(rs, cname, 1, answers)

\* Variant of generate: the new token is always appended.
generate_append(rs, g) ==
    LET received == rs.now + g.delay
        serial == Len(rs.log) + 1
        r1 == [rs EXCEPT !.log = Append(@, Exchange("generate", character_id(g.character),
                                                    rs.now, g.answer = "ok")),
                         !.now = received, !.generated = TRUE]
    IN  IF g.answer # "ok" THEN [r1 EXCEPT !.ret = Returned("HTTPError")]
        ELSE [r1 EXCEPT !.tokens = Append(@, Token(serial, received, serial, g.character)),
                        !.ret = ReturnedToken(Len(rs.tokens) + 1)]

\* ESITokens.generate(): the user logs in as g.character and the issuer
\* answers the code exchange; an error answer raises out of
\* send_token_request.
generate(rs, g) ==
    LET received == rs.now + g.delay
        serial == Len(rs.log) + 1
        cid == character_id(g.character)
        r1 == [rs EXCEPT !.log = Append(@, Exchange("generate", cid, rs.now,
                                                    g.answer = "ok")),
                         !.now = received, !.generated = TRUE]
        new_token_dict == [access_token |-> serial, retrieve_time |-> received,
                           refresh_token |-> serial]
        old == {i \in 1 .. Len(rs.tokens) : rs.tokens[i].character_id = cid}
    IN  IF g.answer # "ok" THEN [r1 EXCEPT !.ret = Returned("HTTPError")]
        ELSE IF old # {}
        THEN LET i == CHOOSE j \in old : \A k \in old : j <= k
             IN  [r1 EXCEPT !.tokens[i] = token_update(@, new_token_dict),
                            !.ret = ReturnedToken(i)]
        ELSE [r1 EXCEPT !.tokens = Append(@, Token(serial, received, serial, g.character)),
                        !.ret = ReturnedToken(Len(rs.tokens) + 1)]

\* ESITokens.remove(cname): the first token of that name is popped and
\* returned (ret.index is the place it had); ValueError if there is none.
remove(rs, cname) ==
    LET named == {i \in 1 .. Len(rs.tokens) : rs.tokens[i].character_name = cname}
    IN  IF named = {} THEN [rs EXCEPT !.ret = Returned("ValueError")]
        ELSE LET i == CHOOSE j \in named : \A k \in named : j <= k
             IN  [rs EXCEPT !.tokens = SubSeq(@, 1, i - 1) \o SubSeq(@, i + 1, Len(@)),
                            !.ret = ReturnedToken(i)]

\* The token ESITokens.__getitem__(cname) looks at: the first one for
\* "any", else the first one of that name; 0 if there is none.
getitem_index(store, cname) ==
    LET named == {i \in 1 .. Len(store) : store[i].character_name = cname}
    IN  IF cname = "any" /\ Len(store) > 0 THEN 1
        ELSE IF named # {} THEN CHOOSE j \in named : \A k \in named : j <= k
        ELSE 0

\* ESITokens.__getitem__(cname)
getitem(rs, cname, answers, g) ==
    LET i == getitem_index(rs.tokens, cname)
    IN  IF i = 0 THEN [rs EXCEPT !.ret = Returned("ValueError")]
        ELSE LET r == refresh(rs, rs.tokens[i].character_name, answers)
             IN  IF r.ret.kind = "False" THEN generate(r, g)
                 ELSE [r EXCEPT !.ret = ReturnedToken(i)]

(* ---------------------------------------------------------------------- *)
(* The token file (TOKEN_PATH): clientId -> list of tokens                  *)
(* ---------------------------------------------------------------------- *)
\* The applications that construct a store in this process, and the
\* applications with an entry in the file.  A token is the serial it was
\* issued with.
StoreApps == {1, 2}
FileApps == {1, 2, 3}
TokenSerials == {1, 2}
TokenLists == UNION {[1 .. n -> TokenSerials] : n \in 0 .. MaxFileTokens}

\* An entry of the file, or the lack of one.
NoEntry == [present |-> FALSE, tokens |-> <<>>]
Entry(tokens_list) == [present |-> TRUE, tokens |-> tokens_list]
\* The file does not exist or is empty.
NoFile == [a \in FileApps |-> NoEntry]
file_exists(file) == \E a \in FileApps : file[a].present

\* A store that was not constructed.  stale: the file was written by
\* another store since this one loaded.
NoAppStore == [live |-> FALSE, tokens |-> <<>>, save_flag |-> FALSE, stale |-> FALSE]

\* ESITokens.__init__ and __load_tokens: the tokens of clientId are read
\* from the file, if it has them.
load_tokens(file, clientId) ==
    [live |-> TRUE,
     tokens |-> IF file_exists(file) /\ file[clientId].present
                THEN file[clientId].tokens ELSE <<>>,
     save_flag |-> FALSE,
     stale |-> FALSE]

\* Variant of save: the file is written with the list of this application
\* alone.
save_alone(file, clientId, store) ==
    IF store.tokens = <<>> \/ ~store.save_flag THEN file
    ELSE [NoFile EXCEPT ![clientId] = Entry(store.tokens)]

\* ESITokens.save: nothing is written for an empty or unchanged store;
\* else the file is read, the entry of clientId replaced, and the file
\* written.
save(file, clientId, store) ==
    IF store.tokens = <<>> \/ ~store.save_flag THEN file
    ELSE IF file_exists(file)
    THEN [file EXCEPT ![clientId] = Entry(store.tokens)]
    ELSE [NoFile EXCEPT ![clientId] = Entry(store.tokens)]

(* ---------------------------------------------------------------------- *)
(* Composing a request: ESI.request up to async_request, and               *)
(* ESIRequestParser.__call__                                               *)
(* ---------------------------------------------------------------------- *)
\* A keyword the caller may give: not given, given as None, or a value.
Missing == [given |-> FALSE, none |-> TRUE, v |-> 0]
GivenNone == [given |-> TRUE, none |-> TRUE, v |-> 0]
Given(v) == [given |-> TRUE, none |-> FALSE, v |-> v]
\* where.pop(key, None) is None
is_none(value) == value.none
\* Python's truth value of a keyword value: None and 0 are false.
truthy(value) == ~value.none /\ value.v # 0

\* A parameter of an endpoint (Param: name, _in, required, default).
Param(name, in, required, default) ==
    [name |-> name, in |-> in, required |-> required, default |-> default]
\* An endpoint of the catalog (ESIRequest: request_type, security, parameters).
Endpoint(request_type, security, parameters) ==
    [request_type |-> request_type, security |-> security, parameters |-> parameters]

\* self._metadata.paths / self._metadata[key]: a public market endpoint
\* whose query parameter has a default, an authenticated character
\* endpoint whose query parameter is required and has none, and an
\* endpoint that is not a read.
Paths == {"/markets/{region_id}/orders/", "/characters/{character_id}/search/",
          "/universe/ids/"}
metadata(key) ==
    IF key = "/markets/{region_id}/orders/"
    THEN Endpoint("get", FALSE, <<Param("region_id", "path", TRUE, GivenNone),
                                  Param("order_type", "query", TRUE, Given(1))>>)
    ELSE IF key = "/characters/{character_id}/search/"
    THEN Endpoint("get", TRUE, <<Param("character_id", "path", TRUE, GivenNone),
                                 Param("search", "query", TRUE, GivenNone)>>)
    ELSE Endpoint("post", FALSE, <<>>)

\* The keywords of a call: the value for the path parameter of the
\* endpoint, the value for its query parameter as a keyword and inside the
\* params dict, the Authorization header, cname and generate_token.
ComposeKwd(path, query, params, authorization, cname, generate_token) ==
    [path |-> path, query |-> query, params |-> params, authorization |-> authorization,
     cname |-> cname, generate_token |-> generate_token]
ComposeInput(key, method, kwd) == [key |-> key, method |-> method, kwd |-> kwd]
NoInput == ComposeInput("none", "get", ComposeKwd(Missing, Missing, Missing, Missing,
                                                  "any", TRUE))

\* The Authorization header of a request: none, the caller's, or the
\* bearer header of a token.
NoHeader == [kind |-> "none", access_token |-> 0]
UserHeader == [kind |-> "user", access_token |-> 0]
get_auth_headers(token) == [kind |-> "bearer", access_token |-> token.access_token]

\* The ESIRequest being filled in: path value, query value, Authorization
\* header, the attached token (its place in the store and its character id;
\* 0 for none), and what was done on the way.
NoRequest == [path |-> Missing, params |-> Missing, authorization |-> NoHeader,
              token |-> 0, cid |-> 0, url |-> FALSE]
Composing(rs) ==
    [rs |-> rs, error |-> "none", set_raises |-> FALSE, request |-> NoRequest,
     token_ops |-> <<>>]

\* Variant of parse_request_keywords_in_path: the character id of the
\* token goes before the value of the caller.
parse_request_keywords_in_path_token(value, key, cid) ==
    IF key = "character_id" /\ cid > 0
    THEN [error |-> "none", value |-> Given(cid)]
    ELSE IF is_none(value) THEN [error |-> "KeyError: Missing key", value |-> Missing]
    ELSE [error |-> "none", value |-> value]

\* esi.py lines 641-652 (parser.py 229-239)
parse_request_keywords_in_path(value, key, cid) ==
    IF key = "character_id" /\ cid > 0 /\ ~value.given
    THEN [error |-> "none", value |-> Given(cid)]
    ELSE IF is_none(value) THEN [error |-> "KeyError: Missing key", value |-> Missing]
    ELSE [error |-> "none", value |-> value]

\* esi.py lines 654-675 (parser.py 241-262): value is where.pop(key, None),
\* value2 is params.get(key).
parse_request_keywords_in_query(value, value2, required, default) ==
    IF truthy(value) /\ truthy(value2)
    THEN [error |-> "KeyError: Duplicate key", value |-> Missing]
    ELSE IF is_none(value) /\ is_none(value2) /\ required /\ is_none(default)
    THEN [error |-> "KeyError: Missing key", value |-> Missing]
    ELSE IF is_none(value) /\ is_none(value2) THEN [error |-> "none", value |-> default]
    ELSE IF ~is_none(value) THEN [error |-> "none", value |-> value]
    ELSE [error |-> "none", value |-> value2]

\* esi.py lines 596-639 (parser.py 183-226): the loop over the parameters
\* of the endpoint from i on; c.request.params holds what
\* api_request.params.update(params) stored.
RECURSIVE parse_request_keywords(_, _, _, _)
parse_request_keywords(c, parameters, kwd, i) ==
    IF i > Len(parameters) THEN [c EXCEPT !.request.url = TRUE]
    ELSE LET api_param_ == parameters[i]
         IN  IF api_param_.in = "path"
             THEN LET r == parse_request_keywords_in_path(kwd.path, api_param_.name,
                                                          c.request.cid)
                  IN  IF r.error # "none" THEN [c EXCEPT !.error = r.error]
                      ELSE parse_request_keywords([c EXCEPT !.request.path = r.value],
                                                  parameters, kwd, i + 1)
             ELSE LET r == parse_request_keywords_in_query(
                             kwd.query, kwd.params, api_param_.required,
                             api_param_.default)
                  IN  IF r.error # "none" THEN [c EXCEPT !.error = r.error]
                      ELSE IF ~is_none(r.value)
                      THEN parse_request_keywords([c EXCEPT !.request.params = r.value],
                                                  parameters, kwd, i + 1)
                      ELSE IF ~is_none(api_param_.default)
                      THEN parse_request_keywords(
                             [c EXCEPT !.request.params = api_param_.default],
                             parameters, kwd, i + 1)
                      ELSE parse_request_keywords(c, parameters, kwd, i + 1)

\* ESITokens.exist(cname)
exist(store, cname) ==
    IF cname = "any" THEN Len(store) > 0
    ELSE \E i \in 1 .. Len(store) : store[i].character_name = cname

\* esi.py lines 393-402 (parser.py 108-114): the token of the request is
\* taken from the store of the application with the scope, which is
\* registered; use_generate_token is FALSE where the code has no such
\* keyword.
attach_token(c, kwd, use_generate_token, answers, g) ==
    LET fresh == ~exist(c.rs.tokens, kwd.cname)
        gen == fresh /\ (~use_generate_token \/ kwd.generate_token)
        r == IF gen THEN generate(c.rs, g) ELSE getitem(c.rs, kwd.cname, answers, g)
        ops == <<"search_scope", "exist", IF gen THEN "generate" ELSE "getitem">>
    IN  IF r.ret.kind # "token"
        THEN [c EXCEPT !.rs = r, !.error = r.ret.kind, !.token_ops = ops]
        ELSE [c EXCEPT !.rs = r, !.token_ops = ops,
                       !.request.token = r.ret.index,
                       !.request.cid = r.tokens[r.ret.index].character_id,
                       !.request.authorization = get_auth_headers(r.tokens[r.ret.index])]

\* esi.py line 392: if api_request.security and not headers.get("Authorization")
wants_token(api_request, kwd) == api_request.security /\ ~kwd.authorization.given

\* ESI.request, esi.py lines 376-409: the key and the method are checked,
\* the token attached, the policy stored in ESI.__raises (set_raises) and
\* the keywords parsed.
request_compose(rs, input, answers, g) ==
    LET c0 == Composing(rs)
        kwd == input.kwd
    IN  IF input.key \notin Paths THEN [c0 EXCEPT !.error = "ValueError: key"]
        ELSE LET api_request == metadata(input.key)
             IN  IF api_request.request_type \notin {"get", "head"}
                 THEN [c0 EXCEPT !.error = "NotImplementedError"]
                 ELSE IF ~(api_request.request_type = input.method
                           \/ (input.method = "head" /\ api_request.request_type = "get"))
                 THEN [c0 EXCEPT !.error = "ValueError: method"]
                 ELSE LET c1 == [c0 EXCEPT !.request.params = kwd.params,
                                           !.request.authorization =
                                              IF kwd.authorization.given THEN UserHeader
                                              ELSE NoHeader]
                          c2 == IF wants_token(api_request, kwd)
                                THEN attach_token(c1, kwd, TRUE, answers, g)
                                ELSE c1
                      IN  IF c2.error # "none" THEN c2
                          ELSE parse_request_keywords([c2 EXCEPT !.set_raises = TRUE],
                                                      api_request.parameters, kwd, 1)

\* ESIRequestParser.__call__, parser.py lines 57-71, for a key of the
\* catalog: __generate_req_headers tests "Authorization" in its own empty
\* dict of headers, and __parse_request_keywords puts the headers of the
\* caller over the generated ones.
parser_call(rs, input, answers, g) ==
    LET c0 == Composing(rs)
        kwd == input.kwd
        api_request == metadata(input.key)
    IN  IF api_request.request_type \notin {"get", "head"}
        THEN [c0 EXCEPT !.error = "NotImplementedError"]
        ELSE IF ~(api_request.request_type = input.method
                  \/ (input.method = "head" /\ api_request.request_type = "get"))
        THEN [c0 EXCEPT !.error = "NotImplementedError"]
        ELSE LET c1 == [c0 EXCEPT !.request.params = kwd.params]
                 c2 == IF api_request.security
                       THEN attach_token(c1, kwd, FALSE, answers, g)
                       ELSE c1
                 c3 == IF c2.error # "none" THEN c2
                       ELSE parse_request_keywords(c2, api_request.parameters, kwd, 1)
             IN  IF c3.error = "none" /\ kwd.authorization.given
                 THEN [c3 EXCEPT !.request.authorization = UserHeader]
                 ELSE c3

(* ---------------------------------------------------------------------- *)
(* Cache keys and request identities (data/utils.py, ESI/metadata.py)      *)
(* ---------------------------------------------------------------------- *)
\* The keyword arguments of a call: a sequence of <<name, value>> in the order
\* the caller wrote them, as a Python dict keeps them.
ItemNames == {"cid", "sid"}
ItemValues == {Given(123), Given(234)}
Items == {<<>>} \cup {<<<<n, v>>>> : n \in ItemNames, v \in ItemValues}
              \cup {kwd \in {<<<<n, v>>, <<m, w>>>> : n \in ItemNames, m \in ItemNames,
                                                    v \in ItemValues, w \in ItemValues} :
                       kwd[1][1] # kwd[2][1]}
ItemSet(kwd) == {kwd[i] : i \in 1 .. Len(kwd)}

\* pickle.dumps(obj): the bytes are one to one with the object, and a dict
\* is written item by item in its own order.
pickle_dumps(obj) == <<"pickle", obj>>
pickle_loads(bytes) == bytes[2]

\* function_hash(func): the qualified name and the hash of the source.
function_hash(func) == <<"esi_function", func>>

\* make_cache_key(func, *args, **kwd), data/utils.py lines 217-232, for
\* arguments that are neither functions nor lists.
make_cache_key(func, args, kwd) ==
    <<function_hash(func), pickle_dumps(args), pickle_dumps(kwd), func>>

\* ESIRequest.rid: the identity of a request, made of the key of the
\* endpoint and of its keywords in no order.
rid(request_key, kwd) == [key |-> request_key, kwd |-> ItemSet(kwd)]

(* ---------------------------------------------------------------------- *)
(* SqliteCache (data/cache.py) and the ETag entries of the parser          *)
(* ---------------------------------------------------------------------- *)
Day == 86400                   \* DATE('now'): the date of a time, in seconds
DefaultExpire == 1200          \* timedelta(seconds=1200)
EtagExpire == 604800           \* 24 * 3600 * 7
MinuteExpire == 60             \* cache.set(key, 123, expires=60)

\* hash_key(key): sha256 of the pickled key, taken as free of collisions.
hash_key(key) == <<"esi_cache", pickle_dumps(key)>>

\* The value None, and ETagEntry(etag, payload).
NoEntryValue == [none |-> TRUE, etag |-> "", payload |-> 0]
ETagEntry(etag, payload) == [none |-> FALSE, etag |-> etag, payload |-> payload]

\* The expires argument of set: None, a number of seconds, or a date.
ExpiresNone == [kind |-> "None", v |-> 0]
ExpiresInt(seconds) == [kind |-> "int", v |-> seconds]
ExpiresDate(date) == [kind |-> "str", v |-> date]

\* The table: a set of rows (key, value, expires), one row at most for a key.
Row(key, value, expires) == [key |-> key, value |-> value, expires |-> expires]
RowsOf(table, h) == {r \in table : r.key = h}

\* DATE(t): the day of a time.
DATE(t) == t \div Day

\* SqliteCache.set, cache.py lines 121-135; the time has whole seconds.
cache_set(table, at, key, value, expires) ==
    LET e == IF expires.v = 0 THEN at + DefaultExpire
             ELSE IF expires.kind = "int" THEN at + expires.v
             ELSE expires.v
        h == hash_key(key)
    IN  (table \ RowsOf(table, h)) \cup {Row(h, pickle_dumps(value), e)}

\* DELETE FROM table WHERE expires < DATE('now'), cache.py line 148: the
\* text of a time is less than the text of a day iff its day is earlier.
delete_expired(table, at) == {r \in table : ~(DATE(r.expires) < DATE(at))}

\* SqliteCache.get, cache.py lines 148-169: the table after it, whether a
\* value was found, and the value returned (default is None).
cache_get(table, at, key) ==
    LET table1 == delete_expired(table, at)
        rows == RowsOf(table1, hash_key(key))
    IN  IF rows = {} THEN [table |-> table1, hit |-> FALSE, value |-> NoEntryValue]
        ELSE LET row == CHOOSE r \in rows : TRUE
             IN  IF at > row.expires
                 THEN [table |-> table1, hit |-> FALSE, value |-> NoEntryValue]
                 ELSE [table |-> table1, hit |-> TRUE, value |-> pickle_loads(row.value)]

\* Variant of set_etag: the entry is set without a time of expiry of its
\* own.
set_etag_default(table, at, request_id, etag, payload) ==
    cache_set(table, at, request_id, ETagEntry(etag, payload), ExpiresNone)
\* ESIRequestParser._set_etag, parser.py lines 142-148
set_etag(table, at, request_id, etag, payload) ==
    cache_set(table, at, request_id, ETagEntry(etag, payload), ExpiresInt(EtagExpire))

\* ESIRequestParser._get_etag, parser.py lines 128-133: the table after the
\* lookup and the string returned.
get_etag(table, at, request_id) ==
    LET r == cache_get(table, at, request_id)
    IN  [table |-> r.table, ret |-> IF ~r.value.none THEN r.value.etag ELSE ""]

\* ESIRequestParser._get_etag_payload, parser.py lines 135-140
get_etag_payload(table, at, request_id) ==
    LET r == cache_get(table, at, request_id)
    IN  [table |-> r.table, ret |-> r.value]

\* The request identity of a composed call: its key and its keywords.
request_rid(input) ==
    rid(input.key, <<<<"path", input.kwd.path>>, <<"query", input.kwd.query>>,
                     <<"params", input.kwd.params>>>>)

\* A coroutine ESI.request(method, key, raises=raises, **kwd) that has not
\* run yet.
NewTask(method, policy, budget, checks, green, kwd) ==
    [method |-> method, policy |-> policy, budget |-> budget, checks |-> checks,
     green |-> green, kwd |-> kwd,
     pc |-> "start", raises |-> policy, attempts |-> 0, success |-> FALSE,
     ret |-> NoneRet, error |-> NoExc, blocked |-> FALSE,
     result |-> [kind |-> "pending", ret |-> NoneRet, exc |-> NoExc],
     calls |-> 0, http |-> 0, first |-> "none", first_status |-> 0,
     last |-> "none", last_status |-> 0, all_retry |-> TRUE,
     rejected |-> FALSE, sent_rejected |-> FALSE, remain_at_reject |-> 0, done_at |-> 0,
     last_remain |-> 0, lookup_attempts |-> 0, lookup_valid |-> "True",
     strict |-> "none", check_end |-> "none", lookups |-> 0, lookup_requests |-> 0,
     lookup_last |-> 0, after_checked |-> FALSE, stored |-> "none",
     input |-> NoInput, request |-> NoRequest, token_ops |-> <<>>,
     compose_error |-> "none", etag |-> "", data |-> 0,
     record_on |-> TRUE, fills |-> 0, unrecorded |-> 0]

(* ---------------------------------------------------------------------- *)
(* The construction of the client: ESI.__new__ and ESI.__init__            *)
(* ---------------------------------------------------------------------- *)
\* Private name mangling: in the body of class ESI the identifier
\* __instance is compiled as _ESI__instance; a string is no identifier and
\* stays as it is.
mangled(identifier) == IF identifier = "__instance" THEN "_ESI__instance" ELSE identifier
\* hasattr(cls, name)
hasattr(class, name) == name \in class.attrs

\* ESI.__new__(cls), esi.py lines 119-125: the class after the call;
\* class.instance is the object returned.  fresh is the object that
\* super().__new__(cls) makes.
esi_new(class, fresh) ==
    IF ~hasattr(class, "__instance")
    THEN [attrs |-> class.attrs \cup {mangled("__instance")}, instance |-> fresh]
    ELSE class

\* ESI.__init__(self), esi.py lines 87-117, run for the n-th time in the
\* process: a new ClientSession, a new _SessionRecord (here its requests
\* counter) and a new ESIRequestChecker.
esi_init(n) == [session |-> n, checker |-> n, requests |-> 0]

(* ---------------------------------------------------------------------- *)
(* The api cache decorator (api/utils.py, cache)                           *)
(* ---------------------------------------------------------------------- *)
\* A value of expires: None, seconds, or the text of an Expires header.
NoApiExpires == [kind |-> "None", v |-> 0]
ApiSeconds(n) == [kind |-> "int", v |-> n]
\* ESIClient._record.expires
ApiHeader(record_expires_) ==
    IF record_expires_ = NoExpires THEN NoApiExpires
    ELSE [kind |-> "header", v |-> record_expires_]
\* The keyword expires of a call: not given, or seconds.
ApiKwds == {Missing, Given(60)}
\* make_cache_key(func, *args, **kwd) of the one decorated function: the
\* argument and the keywords of the call.
ApiArgs == {1, 2}
api_key(arg, kwd_expires) == <<arg, kwd_expires>>
ApiKeys == {api_key(arg, e) : arg \in ApiArgs, e \in ApiKwds}
NoApiEntry == [present |-> FALSE, expires |-> NoApiExpires]

\* kwd.get("expires", expires)
kwd_get_expires(kwd_expires, default) ==
    IF kwd_expires.given
    THEN (IF kwd_expires.none THEN NoApiExpires ELSE ApiSeconds(kwd_expires.v))
    ELSE default

\* wrapped_api_cache after a cache miss, api/utils.py lines 206-216: the
\* value passed to cache_instance.set.  closure is the variable expires of
\* wrapper_api_cache's enclosing scope (nonlocal expires), to which line
\* 211 assigns.
api_expires_given(closure, kwd_expires, record_expires_) ==
    LET expires == kwd_get_expires(kwd_expires, closure)
    IN  IF expires = NoApiExpires THEN ApiHeader(record_expires_) ELSE expires

\* The priority of the docstring (lines 183-187): the keyword of the call,
\* else the argument of the decorator, else the Expires header.
api_expires_priority(decorator, kwd_expires, header) ==
    IF kwd_expires.given /\ ~kwd_expires.none THEN ApiSeconds(kwd_expires.v)
    ELSE IF decorator # NoApiExpires THEN decorator
    ELSE ApiHeader(header)

(* ---------------------------------------------------------------------- *)
(* The endpoint status board (ESI/checker.py, ESIEndpointChecker)          *)
(* ---------------------------------------------------------------------- *)
StatusTtl == 60
StatusRoutes == {"/markets/prices/", "/universe/types/{type_id}/"}
\* status_parsed: None, or the dict route -> bool of _parse_status_json.
NoBoard == [none |-> TRUE, routes |-> {}, green |-> {}]
Board(green) == [none |-> FALSE, routes |-> StatusRoutes, green |-> green]
AllGreen == StatusRoutes

\* ESIEndpointChecker.fd_expired, lines 185-189; status.json exists once
\* the checker is constructed.
fd_expired(parsed, mtime, at) ==
    (parsed.none \/ parsed.routes = {}) \/ (mtime - at > StatusTtl)

\* ESIEndpointChecker.__call__(endpoint), lines 191-202, at time at with
\* the status endpoint serving the board server: the board is fetched and
\* written to status.json if fd_expired, and the entry of the endpoint
\* answered, False for a route the board lacks.
endpoints_checker(parsed, mtime, at, server, endpoint) ==
    LET fetch == fd_expired(parsed, mtime, at)
        board == IF fetch THEN Board(server) ELSE parsed
    IN  [parsed |-> board,
         mtime |-> IF fetch THEN at ELSE mtime,
         fetched |-> fetch,
         ret |-> endpoint \in board.green]

(* ---------------------------------------------------------------------- *)
(* State                                                                   *)
(* ---------------------------------------------------------------------- *)
VARIABLES
    esi_raises,            \* ESI.__raises of the client
    raise_flag,            \* ESIRequestChecker.raise_flag
    global_error_remain,   \* ESIRequestError._global_error_remain[0]
    cache,                 \* the checker cache: identifier -> verdict
    clock,                 \* completions since the current call began
    tasks,                 \* the coroutines the event loop holds
    call,                  \* the call of get()/head() in progress, or the last one
    outcome,               \* what the last call returned or raised
    ncalls,                \* calls made so far
    checked,               \* identifiers for which check_type_id has returned
    writes,                \* the values stored in the cache for an identifier
    record,                \* ESI._record, the _SessionRecord of the client
    record_session,        \* ESI._record_session
    record_log,            \* what the recorder has seen, for the properties
    tokens,                \* ESITokens.tokens
    now,                   \* int(time.time())
    issuer_log,            \* the exchanges the issuer has answered
    token_op,              \* the last operation on the token store
    token_file,            \* the file at TOKEN_PATH
    app_stores,            \* the ESITokens instance of each application
    file_op,               \* the last save: who saved what, the file before it
    parsed,                \* the last call of the ESIRequestParser: input, result
    etag_cache,            \* the rows of the table etag_cache
    cache_clock,           \* the time of the cache, in seconds
    cache_op,              \* the last operation on the cache
    cache_sets,            \* the sets of the cache so far, the last one first
    key_op,                \* two calls and the keys derived from them
    esi_class,             \* the attributes set on class ESI, and _ESI__instance
    esi_objects,           \* the ESI objects made so far, with what __init__ gave them
    esi_handles,           \* what each construction ESI() returned
    api_expires,           \* the closure variable expires of a @cache wrapper
    api_store,             \* the entries of the api cache: key -> expires given
    api_op,                \* the last call of the decorated function
    status_parsed,         \* ESIEndpointChecker.status_parsed
    status_mtime,          \* the modification time of status.json
    status_now,            \* time()
    status_server,         \* the board the status endpoint serves
    status_op              \* the last check of the endpoint checker

vars == <<esi_raises, raise_flag, global_error_remain, cache, clock, tasks, call,
          outcome, ncalls, checked, writes, record, record_session, record_log, tokens, now, issuer_log, token_op,
          token_file, app_stores, file_op, parsed, etag_cache, cache_clock,
          cache_op, cache_sets, key_op, esi_class, esi_objects, esi_handles,
          api_expires, api_store, api_op, status_parsed, status_mtime, status_now,
          status_server, status_op>>
token_vars == <<tokens, now, issuer_log, token_op>>
file_vars == <<token_file, app_stores, file_op>>
\* The variables of the library beside the client and its token store.
compose_vars == <<parsed>>
cache_vars == <<etag_cache, cache_clock, cache_op, cache_sets>>
key_vars == <<key_op>>
record_vars == <<record, record_session, record_log>>
client_vars == <<esi_class, esi_objects, esi_handles>>
api_vars == <<api_expires, api_store, api_op>>
status_vars == <<status_parsed, status_mtime, status_now, status_server, status_op>>
more_vars == <<client_vars, api_vars, status_vars>>
lib_vars == <<file_vars, compose_vars, cache_vars, key_vars, more_vars>>

NoOutcome == [kind |-> "none", value |-> <<>>, exc |-> NoExc]
NoCall == [running |-> FALSE, kind |-> "none", method |-> "get", async_loop |-> <<>>,
           kwd |-> Kwd(Absent, Absent), raises_kw |-> Ellipsis, raises |-> ADAPTIVE,
           batch |-> <<>>]

NoTokenOp == [op |-> "none", cname |-> NoName, at |-> 0, before |-> <<>>,
              ret |-> Returned("none"), refresh_ret |-> "none", exchanges |-> 0,
              failed |-> 0, failed_answer |-> "none", generated |-> FALSE]

\* ESITokens.__init__: the tokens of the application are read from the
\* token file.
InitStore(loaded) ==
    /\ tokens = loaded
    /\ now = 0
    /\ issuer_log = <<>>
    /\ token_op = NoTokenOp

InitESI ==
    /\ esi_raises = ADAPTIVE              \* self.__raises = None
    /\ raise_flag = SUPPRESS              \* self.raise_flag = False
    /\ global_error_remain = ErrorRemainInit
    /\ cache = [t \in TypeIds |-> "miss"]
    /\ clock = 0
    /\ tasks = <<>>
    /\ call = NoCall
    /\ outcome = NoOutcome
    /\ ncalls = 0
    /\ checked = [t \in TypeIds |-> FALSE]
    /\ writes = [t \in TypeIds |-> {}]
    /\ record = SessionRecord             \* self._record = _SessionRecord()
    /\ record_session = TRUE              \* self._record_session = True
    /\ record_log = NoRecordLog

NoFileOp == [op |-> "none", app |-> 0, before |-> NoFile, wrote |-> FALSE,
             tokens |-> <<>>, removed |-> 0]

\* The file as it is when the process starts; no store is constructed yet.
InitFile(file) ==
    /\ token_file = file
    /\ app_stores = [a \in StoreApps |-> NoAppStore]
    /\ file_op = NoFileOp

NoParsed == [input |-> NoInput, error |-> "none", request |-> NoRequest,
             token_ops |-> <<>>, if_none_match |-> ""]

NoCacheOp == [op |-> "none", key |-> rid("none", <<>>), at |-> 0, before |-> {},
              hit |-> FALSE, value |-> NoEntryValue, ret |-> ""]

\* An empty table at time 0.
InitCache ==
    /\ etag_cache = {}
    /\ cache_clock = 0
    /\ cache_op = NoCacheOp
    /\ cache_sets = <<>>

NoKeyOp == [done |-> FALSE, func |-> "none", first |-> <<>>, second |-> <<>>,
            keys |-> <<>>, rids |-> <<>>]

InitKeys == key_op = NoKeyOp

\* class ESI before any construction.
InitClient ==
    /\ esi_class = [attrs |-> {}, instance |-> 0]
    /\ esi_objects = <<>>
    /\ esi_handles = <<>>

\* A function decorated with @cache(expires=expires) that was not called.
NoApiOp == [op |-> "none", key |-> 0, kwd_expires |-> NoApiExpires,
            header |-> NoExpires, given |-> NoApiExpires, closure |-> NoApiExpires]
InitApi(expires) ==
    /\ api_expires = [decorator |-> expires, closure |-> expires]
    /\ api_store = [k \in ApiKeys |-> NoApiEntry]
    /\ api_op = NoApiOp

\* ESIEndpointChecker.__init__ at time at: status.json does not exist or
\* is empty (it is created, status_parsed = None), or it holds a board
\* written at mtime.
NoStatusOp == [op |-> "none", age |-> 0, had_copy |-> FALSE, fetched |-> FALSE,
               endpoint |-> "", ret |-> FALSE]
InitStatus(board, mtime, at) ==
    /\ status_parsed = board
    /\ status_mtime = mtime
    /\ status_now = at
    /\ status_server = AllGreen
    /\ status_op = NoStatusOp

InitMore == InitClient /\ InitApi(NoApiExpires) /\ InitStatus(NoBoard, 0, 0)

InitLib == InitFile(NoFile) /\ parsed = NoParsed /\ InitCache /\ InitKeys /\ InitMore

\* The client with no token file.
Init == InitESI /\ InitStore(<<>>) /\ InitLib

shared == [raises |-> esi_raises, raise_flag |-> raise_flag,
           remain |-> global_error_remain, cache |-> cache, clock |-> clock,
           checked |-> checked, writes |-> writes,
           record |-> record, record_session |-> record_session,
           record_log |-> record_log]

\* The effect of one coroutine step of task t.
CommitTask(t, st) ==
    /\ tasks' = [tasks EXCEPT ![t] = st.tk]
    /\ esi_raises' = st.sh.raises
    /\ raise_flag' = st.sh.raise_flag
    /\ global_error_remain' = st.sh.remain
    /\ cache' = st.sh.cache
    /\ clock' = st.sh.clock
    /\ checked' = st.sh.checked
    /\ writes' = st.sh.writes
    /\ record' = st.sh.record
    /\ record_log' = st.sh.record_log
    /\ UNCHANGED <<call, outcome, ncalls, record_session>>

\* A step of a request that does not touch the token store.
Commit(t, st) == CommitTask(t, st) /\ UNCHANGED <<token_vars, lib_vars>>

BatchSet == {call.batch[i] : i \in 1 .. Len(call.batch)}
BatchTasks == [i \in 1 .. Len(call.batch) |-> tasks[call.batch[i]]]

\* asyncio runs the first steps of the tasks of a call in the order of
\* ensure_future, in one iteration of the loop; a task left over by an
\* earlier call steps before them or after them.
StepAllowed(t) ==
    /\ call.running
    /\ \/ \A b \in BatchSet : tasks[b].pc # "start"
       \/ t \notin BatchSet /\ \A b \in BatchSet : tasks[b].pc = "start"

\* The tasks the loop still holds when a new call begins.
Pending == SelectSeq(tasks, LAMBDA tk : tk.pc # "done")

(* ---------------------------------------------------------------------- *)
(* Inputs                                                                  *)
(* ---------------------------------------------------------------------- *)
RaisesKwds == Policies \cup {Ellipsis}
AsyncLoops == {<<"type_id">>, <<"page">>, <<"type_id", "page">>, <<"page", "type_id">>}
PageLists == {[i \in 1 .. n |-> i] : n \in 0 .. MaxLoopLen}

\* The caller names every iterable keyword in async_loop.
LoopsNamed(async_loop, kwd) ==
    \A n \in {"type_id", "page"} : kwd[n].iter =>
        \E i \in 1 .. Len(async_loop) : async_loop[i] = n

\* Single requests: no checks, a route that is down, or a checked request
\* with or without a type_id among ids.
SingleInputs(ids) ==
    {[kwd |-> Kwd(Absent, Absent), checks |-> FALSE, green |-> TRUE],
     [kwd |-> Kwd(Absent, Absent), checks |-> TRUE, green |-> FALSE]}
    \cup {[kwd |-> Kwd(t, Absent), checks |-> TRUE, green |-> TRUE] :
            t \in {Absent} \cup {Scalar(i) : i \in ids}}

\* Fan-out calls over type_id and page, of at most MaxBatch requests.
FanoutInputs(ids) ==
    {c \in [async_loop : AsyncLoops,
            kwd : {Kwd(t, p) :
                     t \in {Absent} \cup {Scalar(i) : i \in ids}
                           \cup {List(l) : l \in UNION {[1 .. n -> ids] : n \in 0 .. MaxLoopLen}},
                     p \in {Absent} \cup {List(l) : l \in PageLists}},
            checks : {TRUE}, green : {TRUE}] :
        /\ LoopsNamed(c.async_loop, c.kwd)
        /\ \/ looper_raises(c.async_loop, c.kwd)
           \/ Len(recursive_looper(c.async_loop, c.kwd)) <= MaxBatch}

\* Responses of the server to one exchange.
OutcomesOf(statuses, remains, faults) ==
    [fault : {"none"}, status : statuses, remain : remains]
    \cup [fault : faults, status : {0}, remain : {0}]
RemainValues == {LowWatermark + 1, LowWatermark + 2}

(* ---------------------------------------------------------------------- *)
(* Actions                                                                 *)
(* ---------------------------------------------------------------------- *)
\* A call begins: its coroutines are created (esi.py lines 232, 259, 338).
\* call.method is the method of the client that was called: "get", "head",
\* or "request" for ESI.request itself, whose HTTP method is GET.
BeginCall(kind, method, async_loop, kwd, raises_kw, raises, checks, green, budget) ==
    LET reqs == IF kind = "fanout" THEN recursive_looper(async_loop, kwd) ELSE <<kwd>>
        new == [i \in 1 .. Len(reqs) |->
                  NewTask(IF method = "request" THEN "get" ELSE method,
                          raises, budget, checks, green, reqs[i])]
    IN  /\ ~call.running
        /\ tasks' = Pending \o new
        /\ call' = [running |-> TRUE, kind |-> kind, method |-> method,
                    async_loop |-> async_loop, kwd |-> kwd, raises_kw |-> raises_kw,
                    raises |-> raises,
                    batch |-> [i \in 1 .. Len(reqs) |-> Len(Pending) + i]]
        /\ outcome' = NoOutcome
        /\ clock' = 0
        /\ ncalls' = ncalls + 1
        /\ UNCHANGED <<esi_raises, raise_flag, global_error_remain, cache, checked, writes,
                     record_vars, token_vars, lib_vars>>

\* ESI.get(key, raises=..., checks=..., **kwd): one request.
get(kwd, raises_kw, checks, green) ==
    BeginCall("single", "get", <<>>, kwd, raises_kw, get_raises(raises_kw, <<>>),
              checks, green, DefaultAttempts)

\* ESI.get(key, async_loop, raises=..., checks=..., **kwd): a fan-out.
get_async_loop(async_loop, kwd, raises_kw, checks, green) ==
    IF looper_raises(async_loop, kwd)
    THEN /\ ~call.running
         /\ outcome' = [kind |-> "raised", value |-> <<>>, exc |-> Exc("ValueError", 0)]
         /\ call' = [NoCall EXCEPT !.kind = "fanout", !.async_loop = async_loop,
                                   !.kwd = kwd, !.raises_kw = raises_kw,
                                   !.raises = get_raises(raises_kw, async_loop)]
         /\ tasks' = Pending
         /\ ncalls' = ncalls + 1
         /\ UNCHANGED <<esi_raises, raise_flag, global_error_remain, cache, clock, checked,
                      writes, record_vars, token_vars, lib_vars>>
    ELSE BeginCall("fanout", "get", async_loop, kwd, raises_kw,
                   get_raises(raises_kw, async_loop), checks, green, DefaultAttempts)

\* ESI.head(key, raises=..., checks=..., **kwd)
head(kwd, raises_kw, checks, green) ==
    BeginCall("single", "head", <<>>, kwd, raises_kw, head_raises(raises_kw),
              checks, green, DefaultAttempts)

\* One request through ESI.request with the decorator's attempts given:
\* ESIRequestError(attempts, raises)(async_request)(api_request, method, checks).
send(kwd, raises, checks, green, attempts) ==
    BeginCall("single", "request", <<>>, kwd, raises, raises, checks, green, attempts)

\* The first step of a request coroutine.
Start(t) ==
    /\ call.running
    /\ tasks[t].pc = "start"
    /\ tasks[t].input = NoInput
    /\ \A u \in 1 .. t - 1 : tasks[u].pc # "start"
    /\ Commit(t, request_start([sh |-> shared, tk |-> tasks[t]]))

\* The live endpoint answers a request of the checker's lookup.
LookupDone(t, status) ==
    /\ StepAllowed(t)
    /\ tasks[t].pc = "lookup"
    /\ status \in {StatusOk, BadGateway} \/ tasks[t].lookup_requests < MaxLookupRequests
    /\ Commit(t, Run(lookup_response([sh |-> shared, tk |-> tasks[t]], status)))

\* The HTTP exchange of a request ends with outcome o.
HttpDone(t, o) ==
    /\ StepAllowed(t)
    /\ tasks[t].pc = "http"
    /\ Commit(t, Run(http_done([sh |-> shared, tk |-> tasks[t]], o)))

\* get() or head() ends with outcome': the recorder that decorates them
\* (esi.py lines 156, 293) fills the timer.  A call of ESI.request itself
\* has no such recorder.
CallRecorded ==
    /\ record' = IF call.method = "request" THEN record
                 ELSE session_recorder_wrapped_normal(record, record_session,
                                                      outcome'.kind = "raised", outcome'.exc)
    /\ UNCHANGED <<record_session, record_log>>

\* run_until_complete of a single call returns or raises (esi.py 232, 338).
SingleDone ==
    /\ call.running
    /\ call.kind = "single"
    /\ tasks[call.batch[1]].pc = "done"
    /\ outcome' = LET r == tasks[call.batch[1]].result
                  IN  IF r.kind = "raised"
                      THEN [kind |-> "raised", value |-> <<>>, exc |-> r.exc]
                      ELSE [kind |-> "returned", value |-> <<r.ret>>, exc |-> NoExc]
    /\ call' = [call EXCEPT !.running = FALSE]
    /\ CallRecorded
    /\ UNCHANGED <<token_vars, lib_vars, esi_raises, raise_flag, global_error_remain, cache, clock,
                   tasks, ncalls,
                   checked, writes>>

\* Every task of the batch ended without an exception: esi.py lines 283-291.
FanoutDone ==
    /\ call.running
    /\ call.kind = "fanout"
    /\ \A b \in BatchSet : tasks[b].pc = "done" /\ tasks[b].result.kind = "returned"
    /\ outcome' = [kind |-> "returned",
                   value |-> collect_results([i \in 1 .. Len(call.batch) |->
                                                 BatchTasks[i].result.ret]),
                   exc |-> NoExc]
    /\ call' = [call EXCEPT !.running = FALSE]
    /\ CallRecorded
    /\ UNCHANGED <<token_vars, lib_vars, esi_raises, raise_flag, global_error_remain, cache, clock,
                   tasks, ncalls,
                   checked, writes>>

\* gather raises the exception of the first task that ended with one; the
\* other tasks of the batch, which all took their first step, stay on the
\* loop (esi.py line 283).
FanoutRaise ==
    /\ call.running
    /\ call.kind = "fanout"
    /\ \A b \in BatchSet : tasks[b].pc # "start"
    /\ \E b \in BatchSet :
         /\ tasks[b].result.kind = "raised"
         /\ \A c \in BatchSet : tasks[c].result.kind = "raised"
                                  => tasks[b].done_at <= tasks[c].done_at
         /\ outcome' = [kind |-> "raised", value |-> <<>>, exc |-> tasks[b].result.exc]
    /\ call' = [call EXCEPT !.running = FALSE]
    /\ CallRecorded
    /\ UNCHANGED <<token_vars, lib_vars, esi_raises, raise_flag, global_error_remain, cache, clock,
                   tasks, ncalls,
                   checked, writes>>

TaskIds == 1 .. Len(tasks)

(* ---------------------------------------------------------------------- *)
(* Spec: one call of get() or head(), single or fan-out                    *)
(* ---------------------------------------------------------------------- *)
FanoutTypeIds == {1, 3, 4}
FanoutOutcomes == OutcomesOf({200, 404, 503}, RemainValues, {"timeout", "disconnected"})
SpecSingles == SingleInputs(TypeIds)
SpecFanouts == FanoutInputs(FanoutTypeIds)

Next ==
    \/ /\ ncalls = 0
       /\ \E c \in SpecSingles, raises_kw \in RaisesKwds :
            get(c.kwd, raises_kw, c.checks, c.green)
    \/ /\ ncalls = 0
       /\ \E c \in SpecFanouts, raises_kw \in RaisesKwds :
            get_async_loop(c.async_loop, c.kwd, raises_kw, c.checks, c.green)
    \/ /\ ncalls = 0
       /\ \E c \in SpecSingles, raises_kw \in RaisesKwds :
            head(c.kwd, raises_kw, c.checks, c.green)
    \/ \E t \in TaskIds : Start(t)
    \/ \E t \in TaskIds : LookupDone(t, StatusOk)
    \/ \E t \in TaskIds, o \in FanoutOutcomes : HttpDone(t, o)
    \/ SingleDone
    \/ FanoutDone
    \/ FanoutRaise

Spec == Init /\ [][Next]_vars

(* ---------------------------------------------------------------------- *)
(* SpecSend: a sequence of single sends with every attempt budget          *)
(* ---------------------------------------------------------------------- *)
Budgets == (1 .. MaxAttempts) \cup {DefaultAttempts}
SendOutcomes == OutcomesOf({200, 304, BAD_REQUEST, NOT_FOUND, ERROR_LIMITED, 500, 503},
                           RemainValues, {"timeout", "disconnected"})
SendInputs == SingleInputs({1, 4})

NextSend ==
    \/ /\ ncalls < MaxCalls
       /\ \E c \in SendInputs, raises \in Policies, attempts \in Budgets :
            send(c.kwd, raises, c.checks, c.green, attempts)
    \/ \E t \in TaskIds : Start(t)
    \/ \E t \in TaskIds : LookupDone(t, StatusOk)
    \/ \E t \in TaskIds, o \in SendOutcomes : HttpDone(t, o)
    \/ SingleDone

SpecSend == Init /\ [][NextSend]_vars

(* ---------------------------------------------------------------------- *)
(* SpecCalls: a sequence of calls on the one client; the tasks a fan-out   *)
(* left on the loop when it raised run on during the next call             *)
(* ---------------------------------------------------------------------- *)
CallsTypeIds == {3, 4}
CallsOutcomes == OutcomesOf({200, 503}, {LowWatermark + 2}, {"timeout"})
CallsSingles == SingleInputs({3})
CallsFanouts == {c \in FanoutInputs(CallsTypeIds) : c.kwd.page = Absent}

NextCalls ==
    \/ /\ ncalls < MaxCalls
       /\ \E c \in CallsSingles, raises_kw \in RaisesKwds :
            get(c.kwd, raises_kw, c.checks, c.green)
    \/ /\ ncalls < MaxCalls
       /\ \E c \in CallsFanouts, raises_kw \in RaisesKwds :
            get_async_loop(c.async_loop, c.kwd, raises_kw, c.checks, c.green)
    \/ \E t \in TaskIds : Start(t)
    \/ \E t \in TaskIds : LookupDone(t, StatusOk)
    \/ \E t \in TaskIds, o \in CallsOutcomes : HttpDone(t, o)
    \/ SingleDone
    \/ FanoutDone
    \/ FanoutRaise

SpecCalls == Init /\ [][NextCalls]_vars

(* ---------------------------------------------------------------------- *)
(* SpecChecker: calls under the suppress and adaptive policies whose        *)
(* requests name an identifier, with every answer of the live endpoint to  *)
(* the checker's lookup                                                    *)
(* ---------------------------------------------------------------------- *)
LookupStatuses == {StatusOk, BadGateway, NOT_FOUND}
CheckerTypeIds == {3, 4}
CheckerOutcomes == OutcomesOf({StatusOk}, {LowWatermark + 2}, {})
CheckerSingles == {c \in SingleInputs(TypeIds) : Has(c.kwd, "type_id")}
CheckerPolicies == {SUPPRESS, ADAPTIVE}
CheckerFanouts == {c \in FanoutInputs(CheckerTypeIds) : c.kwd.page = Absent}

NextChecker ==
    \/ /\ ncalls < MaxCalls
       /\ \E c \in CheckerSingles, raises_kw \in CheckerPolicies :
            get(c.kwd, raises_kw, c.checks, c.green)
    \/ /\ ncalls < MaxCalls
       /\ \E c \in CheckerFanouts, raises_kw \in CheckerPolicies :
            get_async_loop(c.async_loop, c.kwd, raises_kw, c.checks, c.green)
    \/ \E t \in TaskIds, status \in LookupStatuses : LookupDone(t, status)
    \/ \E t \in TaskIds : Start(t)
    \/ \E t \in TaskIds, o \in CheckerOutcomes : HttpDone(t, o)
    \/ SingleDone
    \/ FanoutDone

SpecChecker == Init /\ [][NextChecker]_vars

(* ---------------------------------------------------------------------- *)
(* SpecTokens: operations on the token store of one application, as time    *)
(* passes and the issuer answers                                           *)
(* ---------------------------------------------------------------------- *)
\* The readings of the clock: around the ends of the refresh windows.
Times == {t \in {k * update_time + d : k \in 0 .. MaxWindows, d \in {-1, 0, 1}} : t >= 0}

\* The token files the store is constructed from.
LoadedStores == {<<>>, <<Token(0, 0, 0, "A")>>,
                 <<Token(0, 0, 0, "A"), Token(0, 0, 0, "B")>>}
GetNames == CharacterNames \cup {"any"}
RefreshNames == CharacterNames \cup {NoName}
request_vars == <<esi_raises, raise_flag, global_error_remain, cache, clock, tasks, call,
                  outcome, ncalls, checked, writes>>
ESI_vars == <<request_vars, record_vars>>

\* An operation of the store ended in state r.
StoreAssign(op, cname, r) ==
    /\ tokens' = r.tokens
    /\ now' = r.now
    /\ issuer_log' = r.log
    /\ token_op' = [op |-> op, cname |-> cname, at |-> now, before |-> tokens,
                    ret |-> r.ret, refresh_ret |-> r.refresh_ret,
                    exchanges |-> r.exchanges, failed |-> r.failed,
                    failed_answer |-> r.failed_answer, generated |-> r.generated]

\* An operation of the store called on its own.
StoreCommit(op, cname, r) == StoreAssign(op, cname, r) /\ UNCHANGED <<ESI_vars, lib_vars>>

\* Time passes.
Tick(t) ==
    /\ t > now
    /\ now' = t
    /\ UNCHANGED <<tokens, issuer_log, token_op, ESI_vars, lib_vars>>

\* tokens[cname]
TokenGet(cname, answers, g) ==
    /\ Len(issuer_log) < MaxExchanges
    /\ StoreCommit("get", cname, getitem(StoreState(tokens, issuer_log, now), cname, answers, g))

\* tokens.refresh(cname)
TokenRefresh(cname, answers) ==
    /\ Len(issuer_log) < MaxExchanges
    /\ StoreCommit("refresh", cname, refresh(StoreState(tokens, issuer_log, now), cname, answers))

\* tokens.generate()
TokenGenerate(g) ==
    /\ Len(issuer_log) < MaxExchanges
    /\ StoreCommit("generate", NoName, generate(StoreState(tokens, issuer_log, now), g))

\* tokens.remove(cname)
TokenRemove(cname) ==
    StoreCommit("remove", cname, remove(StoreState(tokens, issuer_log, now), cname))

NextTokens ==
    \/ \E t \in Times : Tick(t)
    \/ \E cname \in GetNames, a \in RefreshAnswers, g \in GenerateAnswers :
          TokenGet(cname, [i \in 1 .. Len(tokens) |-> a], g)
    \/ \E cname \in RefreshNames, answers \in [1 .. Len(tokens) -> RefreshAnswers] :
          TokenRefresh(cname, answers)
    \/ \E g \in GenerateAnswers : TokenGenerate(g)

InitTokens == InitESI /\ InitLib /\ \E loaded \in LoadedStores : InitStore(loaded)

SpecTokens == InitTokens /\ [][NextTokens]_vars

(* ---------------------------------------------------------------------- *)
(* SpecStore: sequences of generate, refresh and remove on the token store  *)
(* ---------------------------------------------------------------------- *)
NextStore ==
    \/ \E t \in Times : Tick(t)
    \/ \E g \in GenerateAnswers : TokenGenerate(g)
    \/ \E cname \in RefreshNames, answers \in [1 .. Len(tokens) -> RefreshAnswers] :
          TokenRefresh(cname, answers)
    \/ \E cname \in CharacterNames : TokenRemove(cname)

SpecStore == InitTokens /\ [][NextStore]_vars

(* ---------------------------------------------------------------------- *)
(* SpecFile: the stores of two applications are constructed, changed and   *)
(* saved in any order over one token file                                  *)
(* ---------------------------------------------------------------------- *)
InitialFiles == {NoFile,
                 [NoFile EXCEPT ![3] = Entry(<<1>>)],
                 [NoFile EXCEPT ![2] = Entry(<<1>>), ![3] = Entry(<<2>>)]}

\* ESITokens(app)
StoreConstruct(a) ==
    /\ app_stores' = [app_stores EXCEPT ![a] = load_tokens(token_file, a)]
    /\ UNCHANGED <<token_file, file_op, ESI_vars, token_vars, compose_vars, cache_vars, key_vars, more_vars>>

\* generate() or refresh() left the store of application a with this
\* list: self._save_flag = True (token.py lines 167, 201).
StoreChange(a, tokens_list) ==
    /\ app_stores[a].live
    /\ tokens_list # <<>>
    /\ tokens_list # app_stores[a].tokens
    /\ app_stores' = [app_stores EXCEPT ![a].tokens = tokens_list, ![a].save_flag = TRUE]
    /\ UNCHANGED <<token_file, file_op, ESI_vars, token_vars, compose_vars, cache_vars, key_vars, more_vars>>

\* remove(cname) popped a token of the store of application a.
StoreRemove(a, i) ==
    /\ app_stores[a].live
    /\ i \in 1 .. Len(app_stores[a].tokens)
    /\ app_stores' = [app_stores EXCEPT
                        ![a].tokens = SubSeq(@, 1, i - 1) \o SubSeq(@, i + 1, Len(@)),
                        ![a].save_flag = TRUE]
    /\ file_op' = [NoFileOp EXCEPT !.op = "remove", !.app = a,
                                   !.removed = app_stores[a].tokens[i]]
    /\ UNCHANGED <<token_file, ESI_vars, token_vars, compose_vars, cache_vars, key_vars, more_vars>>

\* tokens.save(), also at the exit of a with block.
StoreSave(a) ==
    /\ app_stores[a].live
    /\ token_file' = save(token_file, a, app_stores[a])
    /\ file_op' = [op |-> "save", app |-> a, before |-> token_file,
                   wrote |-> app_stores[a].tokens # <<>> /\ app_stores[a].save_flag,
                   tokens |-> app_stores[a].tokens,
                   removed |-> IF file_op.op = "remove" /\ file_op.app = a
                               THEN file_op.removed ELSE 0]
    /\ app_stores' = [b \in StoreApps |->
                        IF b # a /\ app_stores[b].live /\ token_file' # token_file
                        THEN [app_stores[b] EXCEPT !.stale = TRUE]
                        ELSE app_stores[b]]
    /\ UNCHANGED <<ESI_vars, token_vars, compose_vars, cache_vars, key_vars, more_vars>>

NextFile ==
    \/ \E a \in StoreApps : StoreConstruct(a)
    \/ \E a \in StoreApps, tokens_list \in TokenLists : StoreChange(a, tokens_list)
    \/ \E a \in StoreApps, i \in 1 .. MaxFileTokens : StoreRemove(a, i)
    \/ \E a \in StoreApps : StoreSave(a)

\* The process starts with one of the files.
InitFiles ==
    /\ InitESI
    /\ InitStore(<<>>)
    /\ parsed = NoParsed
    /\ InitCache
    /\ InitKeys
    /\ InitMore
    /\ \E file \in InitialFiles : InitFile(file)

SpecFile == InitFiles /\ [][NextFile]_vars

(* ---------------------------------------------------------------------- *)
(* SpecCompose: single calls whose key, method and keywords are composed   *)
(* by ESI.request, and calls of the ESIRequestParser                       *)
(* ---------------------------------------------------------------------- *)
ComposeKeys == Paths \cup {"/unknown/"}
ComposeKwds == {ComposeKwd(path, query, params, authorization, cname, generate_token) :
                  path \in {Missing, Given(7)},
                  query \in {Missing, Given(0), Given(5)},
                  params \in {Missing, Given(0), Given(6)},
                  authorization \in {Missing, Given(1)},
                  cname \in {"any", "B"},
                  generate_token \in BOOLEAN}
ComposeOutcomes == OutcomesOf({StatusOk, NOT_FOUND}, {LowWatermark + 2}, {})
\* The answers of the issuer during a composition: they come at once.
ComposeRefreshAnswers == {a \in RefreshAnswers : a.delay = 0}
ComposeGenerateAnswers == {g \in GenerateAnswers : g.delay = 0}
\* The keywords of the calls of the parser, which has no generate_token.
ParserKwds == {kwd \in ComposeKwds : /\ kwd.generate_token
                                     /\ kwd.query # Given(0)
                                     /\ kwd.params # Given(0)}

\* ESI.get(key, **kwd) or ESI.head(key, **kwd) without async_loop.
ComposeCall(method, key, kwd, raises_kw) ==
    LET raises == IF method = "head" THEN head_raises(raises_kw)
                  ELSE get_raises(raises_kw, <<>>)
        new == [NewTask(method, raises, DefaultAttempts, TRUE, TRUE, Kwd(Absent, Absent))
                  EXCEPT !.input = ComposeInput(key, method, kwd)]
    IN  /\ ~call.running
        /\ tasks' = Pending \o <<new>>
        /\ call' = [running |-> TRUE, kind |-> "single", method |-> method,
                    async_loop |-> <<>>, kwd |-> Kwd(Absent, Absent),
                    raises_kw |-> raises_kw, raises |-> raises,
                    batch |-> <<Len(Pending) + 1>>]
        /\ outcome' = NoOutcome
        /\ clock' = 0
        /\ ncalls' = ncalls + 1
        /\ UNCHANGED <<esi_raises, raise_flag, global_error_remain, cache, checked, writes,
                       record_vars, token_vars, lib_vars>>

\* A variant of compose_outcome in which the error of the composition goes
\* through the error policy: suppressed, the coroutine returns None.
compose_outcome_policy(st, c) ==
    IF c.error = "none" THEN request_start(st)
    ELSE IF st.tk.policy = SUPPRESS THEN request_return(st, NoneRet)
    ELSE request_raise(st, Exc(c.error, 0))
\* ESI.request after the composition c: the request is handed to
\* async_request, or the error of the composition leaves the coroutine; no
\* try statement of ESI.request catches it.  An error of the keyword
\* parsing comes after ESI.__raises was set.
compose_outcome(st, c) ==
    IF c.error = "none" THEN request_start(st)
    ELSE request_raise([st EXCEPT !.sh.raises = IF c.set_raises THEN st.tk.policy ELSE @],
                       Exc(c.error, 0))

\* The first step of ESI.request: the request is composed, with the
\* operations on the token store that takes, and its outcome follows.
StartCompose(t, answers, g) ==
    /\ call.running
    /\ tasks[t].pc = "start"
    /\ tasks[t].input # NoInput
    /\ LET c == request_compose(StoreState(tokens, issuer_log, now), tasks[t].input,
                                answers, g)
           tk == [tasks[t] EXCEPT !.request = c.request, !.token_ops = c.token_ops,
                                  !.compose_error = c.error]
           st == [sh |-> shared, tk |-> tk]
       IN  /\ IF c.token_ops = <<>> THEN UNCHANGED token_vars
              ELSE StoreAssign(c.token_ops[3], tasks[t].input.kwd.cname, c.rs)
           /\ CommitTask(t, compose_outcome(st, c))
    /\ UNCHANGED lib_vars

\* parser(key, method, **kwd)
ParserCall(key, method, kwd, answers, g) ==
    LET c == parser_call(StoreState(tokens, issuer_log, now),
                         ComposeInput(key, method, kwd), answers, g)
        \* __generate_req_headers got as far as If-None-Match (parser.py 118-119)
        asked == c.error \in {"none", "KeyError: Missing key", "KeyError: Duplicate key"}
        e == get_etag(etag_cache, cache_clock, request_rid(ComposeInput(key, method, kwd)))
    IN  /\ parsed' = [input |-> ComposeInput(key, method, kwd), error |-> c.error,
                      request |-> c.request, token_ops |-> c.token_ops,
                      if_none_match |-> IF asked THEN e.ret ELSE ""]
        /\ IF c.token_ops = <<>> THEN UNCHANGED token_vars
           ELSE StoreAssign(c.token_ops[3], kwd.cname, c.rs)
        /\ etag_cache' = IF asked THEN e.table ELSE etag_cache
        /\ UNCHANGED <<ESI_vars, file_vars, cache_clock, cache_op, cache_sets, key_vars, more_vars>>

NextCompose ==
    \/ /\ ncalls < MaxComposeCalls
       /\ \E method \in {"get", "head"}, key \in ComposeKeys, kwd \in ComposeKwds,
             raises_kw \in RaisesKwds : ComposeCall(method, key, kwd, raises_kw)
    \/ /\ Len(issuer_log) < MaxExchanges
       /\ \E t \in TaskIds, a \in ComposeRefreshAnswers, g \in ComposeGenerateAnswers :
            StartCompose(t, [i \in 1 .. Len(tokens) |-> a], g)
    \/ \E t \in TaskIds, o \in ComposeOutcomes : HttpDone(t, o)
    \/ SingleDone
    \/ \E t \in {update_time} : Tick(t)

SpecCompose == InitTokens /\ [][NextCompose]_vars

\* SpecParser: one call of an ESIRequestParser on a token store.
NextParser ==
    \/ /\ Len(issuer_log) < MaxExchanges
       /\ parsed = NoParsed
       /\ \E key \in Paths, method \in {"get", "head"}, kwd \in ParserKwds,
             a \in ComposeRefreshAnswers, g \in ComposeGenerateAnswers :
            ParserCall(key, method, kwd, [i \in 1 .. Len(tokens) |-> a], g)
    \/ \E t \in {update_time} : Tick(t)

SpecParser == InitTokens /\ [][NextParser]_vars

(* ---------------------------------------------------------------------- *)
(* SpecCache: a SqliteCache that holds the ETag entries of a parser        *)
(* ---------------------------------------------------------------------- *)
MaxSets == 2
RequestIds == {rid("test key", <<<<"cid", Given(123)>>, <<"sid", Given(234)>>>>),
               rid("other key", <<>>)}
Etags == {"E1", "E2"}
Payloads == {12005}
CacheTimes == {0, MinuteExpire, MinuteExpire + 1, DefaultExpire + 1, Day,
               EtagExpire, EtagExpire + 1}
ExpiresValues == {ExpiresNone, ExpiresInt(MinuteExpire), ExpiresDate(Day - 1)}

\* What a set leaves for later: who set, the key, the value, when, and when
\* the row expires.
SetRecord(op, key, value, table) ==
    LET row == CHOOSE r \in RowsOf(table, hash_key(key)) : TRUE
    IN  [op |-> op, key |-> key, value |-> value, at |-> cache_clock,
         expires |-> row.expires]

CacheOp(op, key, r, ret) ==
    [op |-> op, key |-> key, at |-> cache_clock, before |-> etag_cache,
     hit |-> r.hit, value |-> r.value, ret |-> ret]
OtherVarsOfCache == <<ESI_vars, token_vars, file_vars, compose_vars, key_vars, more_vars>>

\* Time passes.
CacheTick(t) ==
    /\ t > cache_clock
    /\ cache_clock' = t
    /\ UNCHANGED <<etag_cache, cache_op, cache_sets, OtherVarsOfCache>>

\* cache.set(key, value, expires)
CacheSet(key, value, expires) ==
    LET table == cache_set(etag_cache, cache_clock, key, value, expires)
    IN  /\ etag_cache' = table
        /\ cache_sets' = <<SetRecord("set", key, value, table)>> \o cache_sets
        /\ cache_op' = CacheOp("set", key, [hit |-> FALSE, value |-> NoEntryValue], "")
        /\ UNCHANGED <<cache_clock, OtherVarsOfCache>>

\* cache.get(key)
CacheGet(key) ==
    LET r == cache_get(etag_cache, cache_clock, key)
    IN  /\ etag_cache' = r.table
        /\ cache_op' = CacheOp("get", key, r, "")
        /\ UNCHANGED <<cache_clock, cache_sets, OtherVarsOfCache>>

\* parser._set_etag(request_id, etag, payload)
SetEtag(request_id, etag, payload) ==
    LET table == set_etag(etag_cache, cache_clock, request_id, etag, payload)
    IN  /\ etag_cache' = table
        /\ cache_sets' = <<SetRecord("set_etag", request_id, ETagEntry(etag, payload), table)>>
                           \o cache_sets
        /\ cache_op' = CacheOp("set_etag", request_id,
                               [hit |-> FALSE, value |-> NoEntryValue], "")
        /\ UNCHANGED <<cache_clock, OtherVarsOfCache>>

\* parser._get_etag(request_id)
GetEtag(request_id) ==
    LET r == get_etag(etag_cache, cache_clock, request_id)
    IN  /\ etag_cache' = r.table
        /\ cache_op' = CacheOp("get_etag", request_id,
                               [hit |-> FALSE, value |-> NoEntryValue], r.ret)
        /\ UNCHANGED <<cache_clock, cache_sets, OtherVarsOfCache>>

\* parser._get_etag_payload(request_id)
GetEtagPayload(request_id) ==
    LET r == get_etag_payload(etag_cache, cache_clock, request_id)
    IN  /\ etag_cache' = r.table
        /\ cache_op' = CacheOp("get_etag_payload", request_id,
                               [hit |-> FALSE, value |-> r.ret], "")
        /\ UNCHANGED <<cache_clock, cache_sets, OtherVarsOfCache>>

NextCache ==
    \/ \E t \in CacheTimes : CacheTick(t)
    \/ /\ Len(cache_sets) < MaxSets
       /\ \E key \in RequestIds, e \in Etags, p \in Payloads, expires \in ExpiresValues :
            CacheSet(key, ETagEntry(e, p), expires)
    \/ \E key \in RequestIds : CacheGet(key)
    \/ /\ Len(cache_sets) < MaxSets
       /\ \E request_id \in RequestIds, e \in Etags, p \in Payloads :
            SetEtag(request_id, e, p)
    \/ \E request_id \in RequestIds : GetEtag(request_id)
    \/ \E request_id \in RequestIds : GetEtagPayload(request_id)

SpecCache == Init /\ [][NextCache]_vars

(* ---------------------------------------------------------------------- *)
(* SpecKeys: the cache key and the request identity of two calls           *)
(* ---------------------------------------------------------------------- *)
Funcs == {"ESIRequestChecker.check_type_id", "get_market_history"}

\* Two calls of one function or endpoint key: make_cache_key and
\* ESIRequest(...).rid of each.
DeriveKeys(func, first, second) ==
    /\ ~key_op.done
    /\ key_op' = [done |-> TRUE, func |-> func, first |-> first, second |-> second,
                  keys |-> <<make_cache_key(func, <<>>, first),
                             make_cache_key(func, <<>>, second)>>,
                  rids |-> <<rid(func, first), rid(func, second)>>]
    /\ UNCHANGED <<ESI_vars, token_vars, file_vars, compose_vars, cache_vars, more_vars>>

NextKeys == \E func \in Funcs, first \in Items, second \in Items :
                DeriveKeys(func, first, second)

SpecKeys == Init /\ [][NextKeys]_vars

(* ---------------------------------------------------------------------- *)
(* SpecConditional: calls of a public endpoint answered 200 or 304 with an *)
(* ETag, beside the table of ETag entries                                  *)
(* ---------------------------------------------------------------------- *)
NotModified == 304
NoBody == 0
ConditionalKwds == {ComposeKwd(Given(7), query, Missing, Missing, "any", TRUE) :
                      query \in {Missing, Given(5)}}
\* The responses: 200 with an ETag and a payload, 304 with an ETag and no
\* body.
ConditionalResponses ==
    [status : {StatusOk}, etag : Etags, body : Payloads]
    \cup [status : {NotModified}, etag : Etags, body : {NoBody}]

\* The GET of async_request is answered (esi.py lines 468-484): the
\* envelope takes its data from req.json() and its headers from the
\* response; the ETag entries are neither read nor written.
ResponseDone(t, r) ==
    /\ StepAllowed(t)
    /\ tasks[t].pc = "http"
    /\ tasks[t].method = "get"
    /\ LET o == [fault |-> "none", status |-> r.status, remain |-> LowWatermark + 2]
           st == Run(http_done([sh |-> shared, tk |-> tasks[t]], o))
       IN  Commit(t, [st EXCEPT !.tk.etag = r.etag, !.tk.data = r.body])

NextConditional ==
    \/ /\ ncalls < MaxCalls
       /\ \E kwd \in ConditionalKwds, raises_kw \in RaisesKwds :
            ComposeCall("get", "/markets/{region_id}/orders/", kwd, raises_kw)
    \/ \E t \in TaskIds, a \in ComposeRefreshAnswers, g \in ComposeGenerateAnswers :
         StartCompose(t, [i \in 1 .. Len(tokens) |-> a], g)
    \/ \E t \in TaskIds, r \in ConditionalResponses : ResponseDone(t, r)
    \/ SingleDone

SpecConditional == Init /\ [][NextConditional]_vars

(* ---------------------------------------------------------------------- *)
(* SpecRecord: calls of get(), single and fan-out, whose responses carry   *)
(* an Expires header, with recording stopped, started and the record       *)
(* cleared before a call                                                   *)
(* ---------------------------------------------------------------------- *)
\* The exchanges of a request that may fail; the later ones are answered 200.
MaxFailures == 1
ExpiresHints == {NoExpires, 1, 2}
RecordOutcomes ==
    [fault : {"none"}, status : {StatusOk}, remain : {LowWatermark + 2},
     expires : ExpiresHints]
    \cup [fault : {"none"}, status : {503}, remain : {LowWatermark + 2}, expires : {1}]
    \cup [fault : {"timeout"}, status : {0}, remain : {0}, expires : {NoExpires}]
\* The policies of the calls: suppress, and the default of the call.
RecordRaisesKwds == {SUPPRESS, Ellipsis}
\* A request that is not checked, and one the reference table rejects.
RecordSingles == {[kwd |-> Kwd(Absent, Absent), checks |-> FALSE, green |-> TRUE],
                  [kwd |-> Kwd(Scalar(1), Absent), checks |-> TRUE, green |-> TRUE]}
\* A fan-out over two pages.
RecordFanouts == {c \in FanoutInputs({}) :
                    /\ c.async_loop = <<"page">>
                    /\ c.kwd.type_id = Absent
                    /\ c.kwd.page = List(<<1, 2>>)}

\* ESI._stop_record(), esi.py lines 689-691
StopRecord ==
    /\ ~call.running
    /\ ncalls < MaxCalls
    /\ record_session
    /\ record_session' = FALSE
    /\ UNCHANGED <<record, record_log, esi_raises, raise_flag, global_error_remain, cache,
                   clock, tasks, call, outcome, ncalls, checked, writes, token_vars,
                   lib_vars>>

\* ESI._start_record(), esi.py lines 685-687
StartRecord ==
    /\ ~call.running
    /\ ncalls < MaxCalls
    /\ ~record_session
    /\ record_session' = TRUE
    /\ UNCHANGED <<record, record_log, esi_raises, raise_flag, global_error_remain, cache,
                   clock, tasks, call, outcome, ncalls, checked, writes, token_vars,
                   lib_vars>>

\* ESI._clear_record(field), esi.py lines 693-696
ClearRecord(field) ==
    /\ ~call.running
    /\ ncalls < MaxCalls
    /\ record # record_clear(record, field)
    /\ record' = record_clear(record, field)
    /\ record_log' = [record_log EXCEPT
                        !.seen = IF field \in {NoField, "expires"} THEN {} ELSE @,
                        !.cleared = field]
    /\ UNCHANGED <<record_session, esi_raises, raise_flag, global_error_remain, cache,
                   clock, tasks, call, outcome, ncalls, checked, writes, token_vars,
                   lib_vars>>

NextRecord ==
    \/ /\ ncalls < MaxCalls
       /\ \E c \in RecordSingles, raises_kw \in RecordRaisesKwds \cup {ADAPTIVE} :
            get(c.kwd, raises_kw, c.checks, c.green)
    \/ /\ ncalls < MaxCalls
       /\ \E c \in RecordFanouts, raises_kw \in RecordRaisesKwds :
            get_async_loop(c.async_loop, c.kwd, raises_kw, c.checks, c.green)
    \/ \E t \in TaskIds : Start(t)
    \/ \E t \in TaskIds, o \in RecordOutcomes :
         /\ (o.fault # "none" \/ o.status >= FailStatus) => tasks[t].http <= MaxFailures
         /\ HttpDone(t, o)
    \/ SingleDone
    \/ FanoutDone
    \/ FanoutRaise
    \/ StopRecord
    \/ StartRecord
    \/ \E field \in RecordFields \cup {NoField} : ClearRecord(field)

SpecRecord == Init /\ [][NextRecord]_vars

(* ---------------------------------------------------------------------- *)
(* SpecClient: constructions ESI() in one process, and recorded requests   *)
(* made through the objects they returned                                  *)
(* ---------------------------------------------------------------------- *)
MaxClients == 4
MaxClientRequests == 2
NoObject == [session |-> 0, checker |-> 0, requests |-> 0]
OtherVarsOfClient == <<ESI_vars, token_vars, file_vars, compose_vars, cache_vars, key_vars,
                       api_vars, status_vars>>

\* ESI(): __new__ and then __init__ on the object it returned.
Construct ==
    /\ Len(esi_handles) < MaxClients
    /\ LET fresh == Len(esi_objects) + 1
           class == esi_new(esi_class, fresh)
           objects == IF class.instance = fresh THEN Append(esi_objects, NoObject)
                      ELSE esi_objects
       IN  /\ esi_class' = class
           /\ esi_objects' = [objects EXCEPT ![class.instance] =
                                                esi_init(Len(esi_handles) + 1)]
           /\ esi_handles' = Append(esi_handles, class.instance)
    /\ UNCHANGED OtherVarsOfClient

\* The caller that holds the result of the h-th construction makes a
\* request that is recorded.
ClientRequest(h) ==
    /\ h \in 1 .. Len(esi_handles)
    /\ esi_objects[esi_handles[h]].requests < MaxClientRequests
    /\ esi_objects' = [esi_objects EXCEPT ![esi_handles[h]].requests = @ + 1]
    /\ UNCHANGED <<esi_class, esi_handles, OtherVarsOfClient>>

NextClient ==
    \/ Construct
    \/ \E h \in 1 .. MaxClients : ClientRequest(h)

SpecClient == Init /\ [][NextClient]_vars

(* ---------------------------------------------------------------------- *)
(* SpecApi: calls of one function decorated with @cache or                 *)
(* @cache(expires=...), each answered with an Expires header               *)
(* ---------------------------------------------------------------------- *)
MaxApiCalls == 3
ApiDecorators == {NoApiExpires, ApiSeconds(3600)}
ApiHeaders == {1, 2}

\* wrapped_api_cache(arg, expires=kwd_expires), api/utils.py lines
\* 195-217; on a miss the function runs and its one request, answered 200
\* with the Expires header, is recorded.
ApiCall(arg, kwd_expires, header) ==
    LET key == api_key(arg, kwd_expires)
    IN  IF api_store[key].present
        THEN /\ api_op' = [op |-> "hit", key |-> key, kwd_expires |-> kwd_expires,
                           header |-> NoExpires, given |-> api_store[key].expires,
                           closure |-> api_expires.closure]
             /\ UNCHANGED <<api_expires, api_store, record_vars>>
        ELSE LET cleared == record_clear(record, "expires")
                 filled == IF record_session
                           THEN session_record_fill(cleared, NoField, "timer",
                                                    Resp(StatusOk, LowWatermark + 2, FALSE),
                                                    header, FALSE, FALSE)
                           ELSE cleared
                 given == api_expires_given(api_expires.closure, kwd_expires, filled.expires)
             IN  /\ record.requests < MaxApiCalls
                 /\ record' = session_recorder_wrapped_normal(filled, record_session,
                                                              FALSE, NoExc)
                 /\ record_log' = [record_log EXCEPT
                                     !.seen = IF record_session THEN {header} ELSE {},
                                     !.cleared = "expires"]
                 /\ api_expires' = [api_expires EXCEPT !.closure = given]
                 /\ api_store' = [api_store EXCEPT ![key] = [present |-> TRUE,
                                                             expires |-> given]]
                 /\ api_op' = [op |-> "miss", key |-> key, kwd_expires |-> kwd_expires,
                               header |-> header, given |-> given,
                               closure |-> api_expires.closure]
                 /\ UNCHANGED record_session

NextApi ==
    \E arg \in ApiArgs, kwd_expires \in ApiKwds, header \in ApiHeaders :
        /\ ApiCall(arg, kwd_expires, header)
        /\ UNCHANGED <<request_vars, token_vars, file_vars, compose_vars, cache_vars,
                       key_vars, client_vars, status_vars>>

\* The function is decorated with one of the arguments.
InitApis ==
    /\ InitESI
    /\ InitStore(<<>>)
    /\ InitFile(NoFile)
    /\ parsed = NoParsed
    /\ InitCache
    /\ InitKeys
    /\ InitClient
    /\ InitStatus(NoBoard, 0, 0)
    /\ \E expires \in ApiDecorators : InitApi(expires)

SpecApi == InitApis /\ [][NextApi]_vars

(* ---------------------------------------------------------------------- *)
(* SpecStatus: checks of endpoints against the status board while time     *)
(* passes and the board of the server changes                              *)
(* ---------------------------------------------------------------------- *)
MaxStatusTime == 130
StatusDelays == {30, 31}
OtherVarsOfStatus == <<ESI_vars, token_vars, file_vars, compose_vars, cache_vars, key_vars,
                       client_vars, api_vars>>

\* Time passes.
StatusTick(d) ==
    /\ status_now + d <= MaxStatusTime
    /\ status_now' = status_now + d
    /\ UNCHANGED <<status_parsed, status_mtime, status_server, status_op, OtherVarsOfStatus>>

\* The status of the routes changes at the server.
ServerChange(green) ==
    /\ green # status_server
    /\ status_server' = green
    /\ UNCHANGED <<status_parsed, status_mtime, status_now, status_op, OtherVarsOfStatus>>

\* endpoints_checker(endpoint)
StatusCheck(endpoint) ==
    LET r == endpoints_checker(status_parsed, status_mtime, status_now, status_server,
                               endpoint)
    IN  /\ status_parsed' = r.parsed
        /\ status_mtime' = r.mtime
        /\ status_op' = [op |-> "check", age |-> status_now - status_mtime,
                         had_copy |-> ~status_parsed.none /\ status_parsed.routes # {},
                         fetched |-> r.fetched, endpoint |-> endpoint, ret |-> r.ret]
        /\ UNCHANGED <<status_now, status_server, OtherVarsOfStatus>>

NextStatus ==
    \/ \E d \in StatusDelays : StatusTick(d)
    \/ \E green \in SUBSET StatusRoutes : ServerChange(green)
    \/ \E endpoint \in StatusRoutes : StatusCheck(endpoint)

\* The checker is constructed with no status.json, or with one written
\* just now or a hundred seconds ago.
InitStatuses ==
    /\ InitESI
    /\ InitStore(<<>>)
    /\ InitFile(NoFile)
    /\ parsed = NoParsed
    /\ InitCache
    /\ InitKeys
    /\ InitClient
    /\ InitApi(NoApiExpires)
    /\ \/ InitStatus(NoBoard, 0, 0)
       \/ InitStatus(Board(AllGreen), 0, 0)
       \/ InitStatus(Board(AllGreen), 0, 100)

SpecStatus == InitStatuses /\ [][NextStatus]_vars

(* ---------------------------------------------------------------------- *)
(* Properties                                                              *)
(* ---------------------------------------------------------------------- *)
PermanentFirst(tk) ==
    \/ tk.first = "timeout"
    \/ tk.first = "status" /\ tk.first_status \in {400, 404, 420}

\* C1: a send whose first attempt ends with status 400, 404 or 420, or with
\* a timeout, makes exactly one transport attempt, whatever the attempt
\* budget (>= 1) and the error policy.
C1_OneAttemptOnPermanentFailure ==
    \A t \in TaskIds :
        (tasks[t].budget >= 1 /\ PermanentFirst(tasks[t]))
            => tasks[t].calls = 1 /\ tasks[t].pc = "done"

C1_Witness ==
    \E t \in TaskIds :
        /\ tasks[t].pc = "done"
        /\ tasks[t].budget = DefaultAttempts
        /\ tasks[t].policy = ADAPTIVE
        /\ tasks[t].first = "status"
        /\ tasks[t].first_status = 404
        /\ tasks[t].calls = 1

\* C2: when every attempt of a send fails with a status >= 400 outside
\* {400, 404, 420} or with a server disconnect, each failure consumes one
\* attempt and exactly `attempts` transport attempts are made; a send never
\* makes more than `attempts` attempts and makes none after a response with
\* status < 400.
C2_RetryableFailuresUseBudget ==
    \A t \in TaskIds :
        LET tk == tasks[t]
        IN  /\ tk.calls <= tk.budget
            /\ (tk.pc = "http" /\ tk.all_retry) => tk.attempts = tk.budget - (tk.calls - 1)
            /\ (tk.pc = "done" /\ tk.calls >= 1 /\ tk.all_retry) => tk.calls = tk.budget
            /\ (tk.last = "status" /\ tk.last_status < 400) => tk.pc = "done"

C2_Witness ==
    \E t \in TaskIds :
        /\ tasks[t].pc = "done"
        /\ tasks[t].all_retry
        /\ tasks[t].budget = DefaultAttempts
        /\ tasks[t].calls = DefaultAttempts
        /\ tasks[t].first = "disconnected"
        /\ tasks[t].last = "status"
        /\ tasks[t].last_status = 503

\* The error of a failed exchange, as the caller sees it.
FailedExchange(tk) ==
    \/ tk.last = "status" /\ tk.last_status >= 400
    \/ tk.last \in {"timeout", "disconnected"}
ErrorOfExchange(tk) ==
    IF tk.last = "status" THEN Exc("ESIResponseError", tk.last_status)
    ELSE IF tk.last = "timeout" THEN Exc("TimeoutError", 0)
    ELSE Exc("ServerDisconnectedError", 0)

\* C4: under the raise policy a send whose attempt budget is exhausted
\* raises the error of its last failed attempt (ESIResponseError with the
\* failing status, or the transport fault); it never returns a response or
\* None for a failed exchange.
C4_RaisePolicyRaisesLastError ==
    \A t \in TaskIds :
        (tasks[t].policy = RAISE /\ tasks[t].pc = "done" /\ FailedExchange(tasks[t]))
            => /\ tasks[t].result.kind = "raised"
               /\ tasks[t].result.exc = ErrorOfExchange(tasks[t])

C4_Witness ==
    \E t \in TaskIds :
        /\ tasks[t].policy = RAISE
        /\ tasks[t].pc = "done"
        /\ tasks[t].calls = DefaultAttempts
        /\ tasks[t].first = "status"
        /\ tasks[t].first_status = 503
        /\ tasks[t].last = "status"
        /\ tasks[t].last_status = 500
        /\ tasks[t].result.exc = Exc("ESIResponseError", 500)

\* C5: under the adaptive policy a send whose attempt budget is exhausted
\* on a status error raises if the shared error budget is then <= 5, and
\* otherwise returns the last response (non-null, status >= 400).
C5_AdaptiveExhaustedOnStatus ==
    [][\A t \in TaskIds :
         (/\ t <= Len(tasks')
          /\ tasks[t].pc = "http"
          /\ tasks'[t].pc = "done"
          /\ tasks'[t].policy = ADAPTIVE
          /\ tasks'[t].last = "status"
          /\ tasks'[t].last_status >= 400)
         => IF global_error_remain' <= 5
            THEN tasks'[t].result.kind = "raised"
            ELSE /\ tasks'[t].result.kind = "returned"
                 /\ tasks'[t].result.ret # NoneRet
                 /\ tasks'[t].result.ret.status = tasks'[t].last_status
                 /\ tasks'[t].result.ret.status >= 400]_vars

C5_Witness ==
    \E t, u \in TaskIds :
        /\ tasks[t].policy = ADAPTIVE /\ tasks[u].policy = ADAPTIVE
        /\ tasks[t].pc = "done" /\ tasks[u].pc = "done"
        /\ tasks[t].last = "status" /\ tasks[t].last_status = 404
        /\ tasks[t].result.exc = Exc("RuntimeError", 0)
        /\ tasks[u].last = "status" /\ tasks[u].last_status = 503
        /\ tasks[u].calls = DefaultAttempts
        /\ tasks[u].result.kind = "returned"
        /\ tasks[u].result.ret.status = 503

\* The cases of C3: how a suppressed send failed.
SuppressCase(tk) ==
    \/ tk.last = "status" /\ tk.last_status >= 400
    \/ tk.last \in {"timeout", "disconnected"}
    \/ tk.blocked

\* C3: under the suppress policy a send never raises and returns None after
\* a permanent 400/404/420, a retryable status on every attempt, a timeout,
\* a disconnect on every attempt, and when the checker blocked the request.
C3_SuppressReturnsNone ==
    \A t \in TaskIds :
        (tasks[t].policy = SUPPRESS /\ tasks[t].pc = "done")
            => /\ tasks[t].result.kind = "returned"
               /\ SuppressCase(tasks[t]) => tasks[t].result.ret = NoneRet

\* A suppressed send that the checker blocked returned an envelope.
C3_Failure ==
    \E t \in TaskIds :
        /\ tasks[t].policy = SUPPRESS
        /\ tasks[t].pc = "done"
        /\ tasks[t].blocked
        /\ tasks[t].http = 0
        /\ tasks[t].result.kind = "returned"
        /\ tasks[t].result.ret = Resp(-1, 100, TRUE)

\* C6: under the adaptive policy a request the checker blocked yields a
\* non-null envelope (status -1, blocked) and no exception when the shared
\* error budget is > 5, and raises when the shared error budget is <= 5.
C6_AdaptiveBlocked ==
    \A t \in TaskIds :
        (tasks[t].policy = ADAPTIVE /\ tasks[t].pc = "done" /\ tasks[t].blocked)
            => IF tasks[t].remain_at_reject <= 5
               THEN tasks[t].result.kind = "raised"
               ELSE /\ tasks[t].result.kind = "returned"
                    /\ tasks[t].result.ret # NoneRet
                    /\ tasks[t].result.ret.status = -1
                    /\ tasks[t].result.ret.blocked

\* An adaptive send blocked with the error budget at 5 returned an envelope.
C6_Failure ==
    \E t \in TaskIds :
        /\ tasks[t].policy = ADAPTIVE
        /\ tasks[t].pc = "done"
        /\ tasks[t].blocked
        /\ tasks[t].remain_at_reject = 5
        /\ tasks[t].result.kind = "returned"
        /\ tasks[t].result.ret.status = -1

\* C7: when the checker rejects a request at the start of a transport
\* attempt, no HTTP exchange is made for that attempt, under every policy.
C7_NoExchangeWhenRejected ==
    \A t \in TaskIds : ~tasks[t].sent_rejected

\* A request the checker rejected is in its HTTP exchange.
C7_Failure ==
    \E t \in TaskIds :
        /\ tasks[t].rejected
        /\ tasks[t].pc = "http"
        /\ tasks[t].http = 1

\* The fan-out of the current call, stated from the call's arguments.
LoopNames == {call.async_loop[i] : i \in 1 .. Len(call.async_loop)}
LoopLen(n) == IF n \in LoopNames THEN Len(call.kwd[n].vals) ELSE 1
\* A combination picks one position in each iterable named in async_loop.
Combinations ==
    {f \in [{"type_id", "page"} -> 1 .. MaxLoopLen] :
        \A n \in {"type_id", "page"} : f[n] <= LoopLen(n)}
KwdOfCombination(f) ==
    [type_id |-> IF "type_id" \in LoopNames
                 THEN Scalar(call.kwd.type_id.vals[f["type_id"]]) ELSE call.kwd.type_id,
     page |-> IF "page" \in LoopNames
              THEN Scalar(call.kwd.page.vals[f["page"]]) ELSE call.kwd.page]
FanoutIssued ==
    /\ call.kind = "fanout"
    /\ outcome.exc.type # "ValueError"
FanoutReturned ==
    /\ call.kind = "fanout"
    /\ ~call.running
    /\ outcome.kind = "returned"
Occurrences(seq, x) == Cardinality({i \in 1 .. Len(seq) : seq[i] = x})

\* C8: a fan-out get issues one request per element of the Cartesian
\* product of the iterables named in async_loop (every combination once,
\* the product of the lengths in all) and returns a list that holds exactly
\* the non-null outcomes of those requests.
C8_CartesianProductNonNull ==
    /\ FanoutIssued =>
         /\ Len(call.batch) = LoopLen("type_id") * LoopLen("page")
         /\ \A f \in Combinations :
              Cardinality({b \in BatchSet : tasks[b].kwd = KwdOfCombination(f)})
                = Cardinality({g \in Combinations :
                                 KwdOfCombination(g) = KwdOfCombination(f)})
    /\ FanoutReturned =>
         /\ \A i \in 1 .. Len(outcome.value) : outcome.value[i] # NoneRet
         /\ \A b \in BatchSet :
              tasks[b].result.ret # NoneRet =>
                Occurrences(outcome.value, tasks[b].result.ret)
                  = Cardinality({c \in BatchSet : tasks[c].result.ret = tasks[b].result.ret})
         /\ \A i \in 1 .. Len(outcome.value) :
              \E b \in BatchSet : tasks[b].result.ret = outcome.value[i]

C8_Witness ==
    /\ FanoutReturned
    /\ Len(call.async_loop) = 2
    /\ Len(call.batch) = 2
    /\ Len(outcome.value) = 1
    /\ \E b \in BatchSet : tasks[b].result.ret = NoneRet /\ tasks[b].http > 0

\* C9: in a fan-out batch the policy of the batch governs every member in
\* every interleaving: a member the checker blocked is None under suppress,
\* raises InvalidRequestError under raise, and is an envelope with
\* blocked = true under adaptive.
C9_BatchPolicyGoverns ==
    call.kind = "fanout" =>
        \A b \in BatchSet :
            (tasks[b].pc = "done" /\ tasks[b].blocked) =>
                IF call.raises = SUPPRESS
                THEN tasks[b].result.kind = "returned" /\ tasks[b].result.ret = NoneRet
                ELSE IF call.raises = RAISE
                THEN /\ tasks[b].result.kind = "raised"
                     /\ tasks[b].result.exc.type = "InvalidRequestError"
                     /\ ~call.running => outcome.kind = "raised"
                ELSE /\ tasks[b].result.kind = "returned"
                     /\ tasks[b].result.ret.status = -1
                     /\ tasks[b].result.ret.blocked

\* A suppressed fan-out over a valid and an invalid identifier returned two
\* results, one of them the envelope of the blocked request.
C9_Failure ==
    /\ FanoutReturned
    /\ call.raises = SUPPRESS
    /\ Len(call.batch) = 2
    /\ Len(outcome.value) = 2
    /\ \E i \in 1 .. 2 : outcome.value[i].blocked /\ outcome.value[i].status = -1
    /\ \E i \in 1 .. 2 : outcome.value[i].status = 200

\* The position of member b among the non-null results, by completion and
\* by issuance.
NonNull == {b \in BatchSet : tasks[b].result.ret # NoneRet}
CompletionRank(b) == Cardinality({c \in NonNull : tasks[c].done_at <= tasks[b].done_at})
IssuanceRank(b) == Cardinality({c \in NonNull : c <= b})

\* C10 as stated: the list of a fan-out get presents the results in the
\* order in which the requests completed, never in issuance order.
C10_CompletionOrder ==
    FanoutReturned =>
        \A b \in NonNull : outcome.value[CompletionRank(b)] = tasks[b].result.ret

\* C10, amended: the list of a fan-out get presents the non-null results in
\* issuance order (the order of the Cartesian-product iteration), whatever
\* the order in which the requests completed.
C10_IssuanceOrder ==
    FanoutReturned =>
        /\ Len(outcome.value) = Cardinality(NonNull)
        /\ \A b \in NonNull : outcome.value[IssuanceRank(b)] = tasks[b].result.ret

C10_Witness ==
    /\ FanoutReturned
    /\ Len(outcome.value) = 2
    /\ outcome.value[1] # outcome.value[2]
    /\ \E b, c \in NonNull : b < c /\ tasks[b].done_at > tasks[c].done_at

\* C11: when the caller gives no error policy, a single call (get without
\* async_loop, or head) uses the raise policy and a fan-out call (get with
\* async_loop) uses the adaptive policy.
C11_DefaultPolicy ==
    call.raises_kw = "..." =>
        \A b \in BatchSet :
            tasks[b].pc # "start" =>
                IF call.kind = "fanout"
                THEN tasks[b].raises = "None" /\ tasks[b].strict \in {"none", "None"}
                ELSE tasks[b].raises = "True" /\ tasks[b].strict \in {"none", "True"}

C11_Witness ==
    /\ call.raises_kw = "..."
    /\ call.kind = "fanout"
    /\ ~call.running
    /\ outcome.kind = "returned"
    /\ \E b \in BatchSet :
         /\ tasks[b].last = "status"
         /\ tasks[b].last_status = 404
         /\ tasks[b].result.ret.status = 404

\* Task t ended an HTTP exchange in this step.
ExchangeEnded(t) ==
    /\ t <= Len(tasks')
    /\ tasks[t].pc = "http"
    /\ tasks'[t].pc = "done" \/ tasks'[t].calls = tasks[t].calls + 1
\* The counter after a response: the server's value, less one on an error.
CounterAfterResponse(t) ==
    tasks'[t].last = "status" =>
        global_error_remain' = IF tasks'[t].last_status >= 400
                               THEN tasks'[t].last_remain - 1
                               ELSE tasks'[t].last_remain

\* C12 as stated: after every failed attempt (error status or transport
\* fault) the shared error-budget counter is decremented by one, and after
\* every successful response it equals the server-reported value.
C12_EveryFailureDecrements ==
    [][\A t \in TaskIds :
         ExchangeEnded(t) =>
            /\ CounterAfterResponse(t)
            /\ tasks'[t].last \in {"timeout", "disconnected"} =>
                 global_error_remain' = global_error_remain - 1]_vars

\* C12, amended: after an attempt that ends with an error status the counter
\* equals the server-reported value of that response less one; after a
\* successful response it equals the server-reported value; a transport
\* fault (timeout, disconnect) leaves the counter unchanged.
C12_StatusFailureDecrements ==
    [][\A t \in TaskIds :
         ExchangeEnded(t) =>
            /\ CounterAfterResponse(t)
            /\ tasks'[t].last \in {"timeout", "disconnected"} =>
                 global_error_remain' = global_error_remain]_vars

C12_Witness ==
    \E t \in TaskIds :
        /\ tasks[t].pc = "done"
        /\ tasks[t].calls = 2
        /\ tasks[t].first = "status"
        /\ tasks[t].first_status = 503
        /\ tasks[t].last = "timeout"
        /\ global_error_remain = tasks[t].last_remain - 1

\* The identifier of the request of a task (0 when it names none).
TypeIdOf(tk) == IF Has(tk.kwd, "type_id") THEN tk.kwd.type_id.vals[1] ELSE 0
\* The local reference table rejects the identifier.
TableRejects(type_id) ==
    type_id \notin invTypes_typeID \/ ~invTypes_published(type_id)

\* C13: for an identifier that is absent from the local reference table, or
\* present but flagged unpublished there, check_type_id returns false
\* without performing any live network lookup.
C13_LocalRejectionWithoutLookup ==
    \A t \in TaskIds :
        (TypeIdOf(tasks[t]) # 0 /\ TableRejects(TypeIdOf(tasks[t])) /\ tasks[t].checks)
            => /\ tasks[t].lookups = 0
               /\ tasks[t].pc # "lookup"
               /\ tasks[t].pc # "start" =>
                    /\ tasks[t].blocked
                    /\ tasks[t].check_end \in {"False", "None"}
                    /\ cache[TypeIdOf(tasks[t])] = "False"

C13_Witness ==
    \E t \in TaskIds :
        /\ TypeIdOf(tasks[t]) = 2
        /\ tasks[t].pc = "done"
        /\ tasks[t].blocked
        /\ tasks[t].lookups = 0
        /\ tasks[t].http = 0
        /\ cache[1] = "False"

\* C14: across a sequence of checks within the cache TTL the live lookup
\* runs at most once per identifier: once at the first check of an
\* identifier that passes the local table, and not at all at a later check,
\* whose result comes from the cache keyed by the identifier alone.
C14_LookupOncePerIdentifier ==
    \A t \in TaskIds :
        LET tk == tasks[t]
        IN  (TypeIdOf(tk) # 0 /\ tk.checks) =>
                /\ tk.lookups <= 1
                /\ tk.after_checked => tk.lookups = 0

\* A check that began after an earlier check of the identifier had returned
\* is in a live lookup of its own.
C14_Failure ==
    \E t \in TaskIds :
        /\ tasks[t].after_checked
        /\ tasks[t].pc = "lookup"
        /\ tasks[t].lookups = 1
        /\ cache[TypeIdOf(tasks[t])] = "None"

\* C15: the checker's live lookup ends after a bounded number of requests:
\* a 502 answer is retried at most 3 times in total, and any other answer
\* that is not 200 ends the lookup with the identifier treated as invalid.
C15_LookupBounded ==
    \A t \in TaskIds :
        /\ tasks[t].lookup_requests <= 3
        /\ tasks[t].pc = "lookup" => tasks[t].lookup_last \in {0, 502}
        /\ (tasks[t].check_end # "none" /\ tasks[t].lookup_last \notin {0, 200, 502})
              => tasks[t].blocked

\* A lookup is at its fourth request with all three of its attempts left.
C15_Failure ==
    \E t \in TaskIds :
        /\ tasks[t].pc = "lookup"
        /\ tasks[t].lookup_requests = 4
        /\ tasks[t].lookup_attempts = 3
        /\ tasks[t].lookup_last = 404

\* C16: when the checker rejects a request it sets the request's blocked
\* flag and, in strict mode (called with raise flag true), raises the typed
\* error instead of returning a false result; when it accepts the request
\* it returns true and leaves the blocked flag false.
C16_CheckerVerdict ==
    \A t \in TaskIds :
        LET tk == tasks[t]
        IN  tk.check_end # "none" =>
                IF tk.check_end = "True"
                THEN ~tk.blocked
                ELSE /\ tk.blocked
                     /\ tk.strict = "True" =>
                          /\ tk.check_end = "raised"
                          /\ tk.result.exc.type \in {"InvalidRequestError",
                                                     "EndpointDownError"}

\* A check called in strict mode ended by returning a false result.
C16_Failure ==
    \E t \in TaskIds :
        /\ tasks[t].strict = "True"
        /\ tasks[t].blocked
        /\ tasks[t].check_end \in {"False", "None"}

\* Two requests of one call missed the checker cache for the same
\* identifier concurrently: each entered the live lookup before the other's
\* lookup had returned, and each stored its value.
ConcurrentMisses(t1, t2) ==
    /\ t1 # t2
    /\ t1 \in BatchSet /\ t2 \in BatchSet
    /\ tasks[t1].stored # "none" /\ tasks[t2].stored # "none"
    /\ ~tasks[t1].after_checked /\ ~tasks[t2].after_checked
    /\ TypeIdOf(tasks[t1]) = TypeIdOf(tasks[t2])

\* C17: when two in-flight requests concurrently miss the checker cache for
\* the same identifier, each performs the live lookup and both cache writes
\* store the same value, which is the value the cache ends with whatever
\* the interleaving.
C17_ConcurrentWritesConverge ==
    \A t1, t2 \in TaskIds :
        ConcurrentMisses(t1, t2) =>
            /\ tasks[t1].lookups = 1 /\ tasks[t2].lookups = 1
            /\ tasks[t1].stored = tasks[t2].stored
            /\ cache[TypeIdOf(tasks[t1])] = tasks[t1].stored

\* Two concurrent misses for one identifier stored different values.
C17_Failure ==
    \E t1, t2 \in TaskIds :
        /\ ConcurrentMisses(t1, t2)
        /\ tasks[t1].stored # tasks[t2].stored

\* The last operation was tokens[cname] for a character that has a token;
\* GetIndex is that token's place in the store.
GetIndex == getitem_index(token_op.before, token_op.cname)
GetOfHeldToken ==
    /\ token_op.op = "get"
    /\ token_op.cname \in CharacterNames
    /\ GetIndex # 0
\* The token was younger than the refresh threshold when the operation began.
FreshAtCall(token_) == (token_op.at - token_.retrieve_time) < update_time

\* C18: getting a token for a character that has one: a token younger than
\* the refresh threshold is returned with no issuer call; a stale token is
\* refreshed first and then returned; if that refresh fails, generate() is
\* performed and the generated token is returned.
C18_GetFreshStaleRefreshed ==
    GetOfHeldToken =>
        LET i == GetIndex
            old == token_op.before[i]
        IN  /\ FreshAtCall(old) =>
                /\ token_op.exchanges = 0 /\ ~token_op.generated
                /\ token_op.ret = ReturnedToken(i)
                /\ tokens = token_op.before
            /\ ~FreshAtCall(old) =>
                /\ token_op.exchanges = 1
                /\ token_op.refresh_ret \in {"True", "False"}
            /\ token_op.refresh_ret = "True" /\ ~FreshAtCall(old) =>
                /\ ~token_op.generated
                /\ token_op.ret = ReturnedToken(i)
                /\ tokens[i].retrieve_time >= token_op.at
                /\ tokens[i].access_token # old.access_token
                /\ tokens[i].access_token = Len(issuer_log)
            /\ token_op.refresh_ret = "False" =>
                /\ ~FreshAtCall(old)
                /\ token_op.generated
                /\ issuer_log[Len(issuer_log)].kind = "generate"
                /\ IF issuer_log[Len(issuer_log)].ok
                   THEN /\ token_op.ret.kind = "token"
                        /\ tokens[token_op.ret.index].access_token = Len(issuer_log)
                        /\ tokens[token_op.ret.index].character_id
                             = issuer_log[Len(issuer_log)].character_id
                   ELSE token_op.ret.kind = "HTTPError"

\* A get found the token stale, its refresh failed, and the token that
\* generate() made for another character was returned.
C18_Witness ==
    /\ GetOfHeldToken
    /\ token_op.refresh_ret = "False"
    /\ token_op.ret.kind = "token"
    /\ token_op.ret.index # GetIndex
    /\ tokens[token_op.ret.index].access_token = Len(issuer_log)

\* Two refresh exchanges for the token of one character.
RefreshPair(i, j) ==
    /\ i < j
    /\ issuer_log[i].kind = "refresh" /\ issuer_log[j].kind = "refresh"
    /\ issuer_log[i].character_id = issuer_log[j].character_id
\* The last operation was a refresh none of whose tokens had reached the
\* threshold.
RefreshOfYoung ==
    /\ token_op.op = "refresh"
    /\ token_op.refresh_ret # "KeyError"
    /\ \A i \in 1 .. Len(token_op.before) :
         (token_op.cname = NoName \/ token_op.before[i].character_name = token_op.cname)
            => FreshAtCall(token_op.before[i])

\* C19: for each token, refresh exchanges with the issuer are at most one
\* per threshold window (1198 s) over any sequence of get/refresh calls;
\* refresh of a token younger than the threshold is a no-op that returns
\* true without contacting the issuer.
C19_RefreshThrottled ==
    /\ \A i, j \in 1 .. Len(issuer_log) :
         RefreshPair(i, j) => issuer_log[j].sent - issuer_log[i].sent >= update_time
    /\ RefreshOfYoung =>
         /\ token_op.ret = Returned("True")
         /\ token_op.exchanges = 0
         /\ tokens = token_op.before

\* The issuer was asked to refresh one token twice within a threshold window.
C19_Failure ==
    \E i, j \in 1 .. Len(issuer_log) :
        /\ RefreshPair(i, j)
        /\ issuer_log[j].sent - issuer_log[i].sent < update_time

\* C20: if the issuer reports an error in the refresh exchange, refresh
\* returns false and the token's access token, refresh token and issue time
\* are left unchanged.
C20_RefreshErrorLeavesToken ==
    (token_op.op = "refresh" /\ token_op.failed_answer = "error") =>
        LET i == token_op.failed
        IN  /\ token_op.ret = Returned("False")
            /\ tokens[i].access_token = token_op.before[i].access_token
            /\ tokens[i].refresh_token = token_op.before[i].refresh_token
            /\ tokens[i].retrieve_time = token_op.before[i].retrieve_time

\* A refresh of every token in which the first token was renewed and the
\* issuer answered the exchange of the second with an error.
C20_Witness ==
    /\ token_op.op = "refresh"
    /\ token_op.failed_answer = "error"
    /\ token_op.failed = 2
    /\ token_op.exchanges = 2
    /\ token_op.ret = Returned("False")
    /\ tokens[1] # token_op.before[1]
    /\ tokens[2] = token_op.before[2]

\* C21: after any sequence of generate, refresh and remove the store never
\* holds two tokens for the same owning character: generate updates the
\* existing token in place when the issued identity matches the owner of an
\* existing token, and appends a new token only otherwise.
C21_OneTokenPerCharacter ==
    /\ \A i, j \in 1 .. Len(tokens) :
         i # j => tokens[i].character_id # tokens[j].character_id
    /\ (token_op.op = "generate" /\ token_op.ret.kind = "token") =>
         LET owner == issuer_log[Len(issuer_log)].character_id
             held == {i \in 1 .. Len(token_op.before) :
                        token_op.before[i].character_id = owner}
         IN  IF held # {}
             THEN /\ Len(tokens) = Len(token_op.before)
                  /\ token_op.ret.index \in held
                  /\ tokens[token_op.ret.index].access_token = Len(issuer_log)
             ELSE /\ Len(tokens) = Len(token_op.before) + 1
                  /\ token_op.ret.index = Len(tokens)
                  /\ SubSeq(tokens, 1, Len(token_op.before)) = token_op.before

\* generate renewed the token of a character the store already held beside
\* another one, after an earlier exchange.
C21_Witness ==
    /\ token_op.op = "generate"
    /\ token_op.ret.kind = "token"
    /\ Len(token_op.before) = 2
    /\ Len(tokens) = 2
    /\ token_op.ret.index = 2
    /\ tokens[2].access_token = 2

\* C22: save replaces only the list of the calling application in the
\* file: the entry of every other application in the file at the time of
\* the write is preserved unchanged, also when stores of different
\* applications load and save in interleaved order.
C22_SavePreservesOthers ==
    file_op.op = "save" =>
        /\ \A other \in FileApps \ {file_op.app} :
             token_file[other] = file_op.before[other]
        /\ token_file[file_op.app] = IF file_op.wrote THEN Entry(file_op.tokens)
                                      ELSE file_op.before[file_op.app]

\* Application 1 wrote its list after application 2 had saved a list that
\* was not in the file when application 1 loaded; the file holds both and
\* the entry of application 3.
C22_Witness ==
    /\ file_op.op = "save" /\ file_op.app = 1 /\ file_op.wrote
    /\ token_file[1] # file_op.before[1]
    /\ file_op.before[2].present
    /\ app_stores[1].stale
    /\ token_file[2] = file_op.before[2]
    /\ token_file[3].present

\* The errors of the composer and of the catalog: an unknown endpoint key,
\* an unsupported method, a missing and a duplicate parameter.
ComposeErrors == {"ValueError: key", "NotImplementedError", "ValueError: method",
                  "KeyError: Missing key", "KeyError: Duplicate key"}
ComposeFailed(t) == tasks[t].input # NoInput /\ tasks[t].compose_error \in ComposeErrors

HasCharacterId(key) ==
    /\ key \in Paths
    /\ \E i \in 1 .. Len(metadata(key).parameters) :
         /\ metadata(key).parameters[i].in = "path"
         /\ metadata(key).parameters[i].name = "character_id"
ComposedForCharacter(t) ==
    /\ tasks[t].input # NoInput
    /\ tasks[t].request.url
    /\ HasCharacterId(tasks[t].input.key)

\* C24: for an endpoint with the path parameter character_id, a request
\* composed with a token attached and no character_id from the caller has
\* the character id of the token in its path, and a request composed with
\* a character_id from the caller has the value of the caller, with or
\* without a token.
C24_CharacterIdFromToken ==
    \A t \in TaskIds :
        ComposedForCharacter(t) =>
            LET request == tasks[t].request
                kwd == tasks[t].input.kwd
            IN  /\ (request.token # 0 /\ ~kwd.path.given) =>
                       request.path = Given(tokens[request.token].character_id)
                /\ kwd.path.given => request.path = kwd.path

\* A request with a token attached and a character_id of the caller that is
\* not the token's.
C24_Witness ==
    \E t \in TaskIds :
        /\ ComposedForCharacter(t)
        /\ tasks[t].request.token # 0
        /\ tasks[t].input.kwd.path.given
        /\ tasks[t].request.path # Given(tokens[tasks[t].request.token].character_id)

\* A request with a token attached that took its character id from it.
TokenCharacterIdUsed ==
    \E t \in TaskIds :
        /\ ComposedForCharacter(t)
        /\ tasks[t].request.token # 0
        /\ ~tasks[t].input.kwd.path.given

\* The calls that supply the query parameter of the endpoint both as a
\* keyword and inside the params dict.
SuppliedTwice(t) ==
    /\ tasks[t].input # NoInput
    /\ tasks[t].pc # "start"
    /\ tasks[t].input.kwd.query.given
    /\ tasks[t].input.kwd.params.given

\* C25: a call that supplies a query parameter both as a keyword argument
\* and inside the params dict, whatever the two values, is rejected: no
\* request is composed from it with one of the two values.
C25_DuplicateRejected ==
    \A t \in TaskIds : SuppliedTwice(t) => ~tasks[t].request.url

\* The keyword 0 and the params value 6: the request is composed with 0.
C25_Failure ==
    \E t \in TaskIds :
        /\ SuppliedTwice(t)
        /\ tasks[t].input.kwd.query = Given(0)
        /\ tasks[t].input.kwd.params = Given(6)
        /\ tasks[t].request.url
        /\ tasks[t].request.params = Given(0)

\* C26: the token store is operated for a request (application lookup,
\* token lookup, refresh, generate) only if the endpoint declares scopes
\* and the caller supplied no Authorization header; with the header
\* supplied no token operation is made and the composed request carries
\* the header of the caller.  Stated of the ESIRequestParser.
C26_TokenOpsSkippedWithHeader ==
    parsed.input # NoInput =>
        /\ parsed.token_ops # <<>> =>
               /\ metadata(parsed.input.key).security
               /\ ~parsed.input.kwd.authorization.given
        /\ (parsed.input.kwd.authorization.given /\ parsed.error = "none") =>
               parsed.request.authorization = UserHeader

\* The parser called with an Authorization header for an endpoint with
\* scopes: the token store is operated all the same.
C26_Failure ==
    /\ parsed.input # NoInput
    /\ parsed.input.kwd.authorization.given
    /\ parsed.token_ops # <<>>

\* The same statement of ESI.request, and a call of it with the header.
RequestSkipsTokensWithHeader ==
    \A t \in TaskIds :
        (tasks[t].input # NoInput /\ tasks[t].pc # "start") =>
            /\ tasks[t].token_ops # <<>> =>
                   /\ metadata(tasks[t].input.key).security
                   /\ ~tasks[t].input.kwd.authorization.given
            /\ (tasks[t].input.kwd.authorization.given /\ tasks[t].request.url) =>
                   tasks[t].request.authorization = UserHeader
RequestWithHeaderComposed ==
    \E t \in TaskIds :
        /\ tasks[t].input # NoInput
        /\ tasks[t].request.url
        /\ metadata(tasks[t].input.key).security
        /\ tasks[t].input.kwd.authorization.given

\* The most recent set of a key, if there is one.
SetsOf(key) == SelectSeq(cache_sets, LAMBDA rec : rec.key = key)
HasSet(key) == SetsOf(key) # <<>>
LastSet(key) == Head(SetsOf(key))
Looked == cache_op.op = "get"
LookedExpired == Looked /\ HasSet(cache_op.key)
                        /\ cache_op.at > LastSet(cache_op.key).expires

\* C30: a lookup of a key whose most recent set has expired reports a miss
\* (the default, None) and leaves no row of the key in the table; a lookup
\* at or before the expiry of the most recent set of the key returns the
\* value of that set; a lookup of a key never set reports a miss.
C30_ExpiredMissedAndRemoved ==
    Looked =>
        /\ LookedExpired =>
               /\ ~cache_op.hit
               /\ cache_op.value = NoEntryValue
               /\ RowsOf(etag_cache, hash_key(cache_op.key)) = {}
        /\ (HasSet(cache_op.key) /\ ~LookedExpired) =>
               /\ cache_op.hit
               /\ cache_op.value = LastSet(cache_op.key).value
        /\ ~HasSet(cache_op.key) => ~cache_op.hit

\* A lookup of an entry that expired earlier on the same day: a miss, and
\* the row is still in the table.
C30_Failure ==
    /\ LookedExpired
    /\ ~cache_op.hit
    /\ RowsOf(etag_cache, hash_key(cache_op.key)) # {}

\* What holds of the lookup: an expired value is never returned, a value
\* that has not expired is, and the row of an expired entry goes once its
\* day is over.
LookupNeverReturnsExpired ==
    Looked =>
        /\ LookedExpired =>
               /\ ~cache_op.hit
               /\ cache_op.value = NoEntryValue
               /\ DATE(LastSet(cache_op.key).expires) < DATE(cache_op.at) =>
                      RowsOf(etag_cache, hash_key(cache_op.key)) = {}
        /\ (HasSet(cache_op.key) /\ ~LookedExpired) =>
               /\ cache_op.hit
               /\ cache_op.value = LastSet(cache_op.key).value
        /\ ~HasSet(cache_op.key) => ~cache_op.hit

\* The lookups of the parser, and those of a request identity whose most
\* recent set is a _set_etag that has not expired: seven days from the set.
EtagLooked == cache_op.op \in {"get_etag", "get_etag_payload"}
EtagAlive ==
    /\ EtagLooked
    /\ HasSet(cache_op.key)
    /\ LastSet(cache_op.key).op = "set_etag"
    /\ cache_op.at <= LastSet(cache_op.key).at + EtagExpire

\* C28: after _set_etag(rid, E, P), and until the entry is overwritten or
\* expires, _get_etag(rid) returns E and _get_etag_payload(rid) returns P;
\* for a request identity never set _get_etag returns the empty string and
\* _get_etag_payload returns None.
C28_EtagRoundTrip ==
    /\ EtagAlive =>
           /\ cache_op.op = "get_etag" => cache_op.ret = LastSet(cache_op.key).value.etag
           /\ cache_op.op = "get_etag_payload" =>
                  /\ ~cache_op.value.none
                  /\ cache_op.value.payload = LastSet(cache_op.key).value.payload
    /\ (EtagLooked /\ ~HasSet(cache_op.key)) =>
           /\ cache_op.op = "get_etag" => cache_op.ret = ""
           /\ cache_op.op = "get_etag_payload" => cache_op.value = NoEntryValue

\* The ETag of an entry read on the last second of its seven days.
C28_Witness ==
    /\ EtagAlive
    /\ cache_op.op = "get_etag"
    /\ cache_op.at = EtagExpire
    /\ cache_op.ret \in Etags

\* The payload read back, and the two lookups of an identity never set.
PayloadReadBack == EtagAlive /\ cache_op.op = "get_etag_payload"
                             /\ cache_op.value.payload \in Payloads
MissingEtagRead == EtagLooked /\ ~HasSet(cache_op.key)

\* Two calls with the same keyword arguments, in whatever order.
SameArguments == key_op.done /\ ItemSet(key_op.first) = ItemSet(key_op.second)

\* C29: two calls of the same function or endpoint key with the same set of
\* keyword arguments, given in any order, have equal request identities and
\* equal cache keys.
C29_KeysIgnoreKeywordOrder ==
    SameArguments =>
        /\ key_op.rids[1] = key_op.rids[2]
        /\ key_op.keys[1] = key_op.keys[2]

\* The same two keywords in two orders: one request identity, two cache
\* keys.
C29_Failure ==
    /\ SameArguments
    /\ key_op.first # key_op.second
    /\ key_op.rids[1] = key_op.rids[2]
    /\ key_op.keys[1] # key_op.keys[2]

\* The calls of get that returned an envelope with the given status.
Answered(t, status) ==
    /\ tasks[t].input # NoInput
    /\ tasks[t].method = "get"
    /\ tasks[t].pc = "done"
    /\ tasks[t].result.kind = "returned"
    /\ tasks[t].result.ret.kind = "ESIResponse"
    /\ tasks[t].result.ret.status = status
EtagRows(t) == RowsOf(etag_cache, hash_key(request_rid(tasks[t].input)))

\* C27: a call answered with 200 and ETag E leaves its payload P stored
\* under its request identity with E, and a call answered with 304 returns
\* an envelope whose payload is the one stored under its request identity,
\* taken from the ETag entries and not from the wire.
C27_ConditionalRoundTrip ==
    \A t \in TaskIds :
        /\ Answered(t, StatusOk) =>
               \E row \in EtagRows(t) :
                   pickle_loads(row.value) = ETagEntry(tasks[t].etag, tasks[t].data)
        /\ Answered(t, NotModified) =>
               \E row \in EtagRows(t) :
                   tasks[t].data = pickle_loads(row.value).payload

\* A call answered with 200, an ETag and a payload: nothing is stored
\* under its request identity.
C27_Failure ==
    \E t \in TaskIds :
        /\ Answered(t, StatusOk)
        /\ tasks[t].etag \in Etags
        /\ tasks[t].data \in Payloads
        /\ EtagRows(t) = {}

\* The second call of a request, answered with 304: its envelope has the
\* empty body of the response.
NotModifiedFromWire ==
    \E t \in TaskIds :
        /\ ncalls = MaxCalls
        /\ Answered(t, NotModified)
        /\ tasks[t].data = NoBody

\* C38: the shared error-budget counter changes only in a step in which a
\* task ends an HTTP exchange with a response (to the server's value, less
\* one on an error status); a request the checker rejected locally leaves
\* it unchanged.
C38_CounterOnlyFromServer ==
    [][global_error_remain' # global_error_remain =>
         \E t \in TaskIds :
            /\ ExchangeEnded(t)
            /\ tasks'[t].last = "status"
            /\ CounterAfterResponse(t)]_vars

\* A send the checker rejected under the adaptive policy, before any
\* exchange of its own, ended with the counter moved from a server-reported
\* value to the default of the envelope.
C38_Failure ==
    \E t \in TaskIds :
        /\ tasks[t].policy = ADAPTIVE
        /\ tasks[t].pc = "done"
        /\ tasks[t].blocked
        /\ tasks[t].http = 0
        /\ tasks[t].remain_at_reject < ErrorRemainDefault
        /\ global_error_remain = ErrorRemainDefault

\* The tokens of a list, as a set.
TokensOf(tokens_list) == {tokens_list[i] : i \in 1 .. Len(tokens_list)}

\* C39: after remove(cname) followed by save(), the file no longer holds
\* the removed token under that application, also when it was the last
\* token of the application, and a store loaded afterwards has no such
\* token.
C39_RemovedTokenLeavesFile ==
    (file_op.op = "save" /\ file_op.removed # 0
        /\ file_op.removed \notin TokensOf(file_op.tokens))
        => /\ file_op.removed \notin TokensOf(token_file[file_op.app].tokens)
           /\ file_op.removed \notin
                 TokensOf(load_tokens(token_file, file_op.app).tokens)

\* The last token of an application was removed and the store saved; the
\* file still holds the token under the application.
C39_Failure ==
    /\ file_op.op = "save" /\ file_op.removed # 0
    /\ file_op.tokens = <<>>
    /\ ~file_op.wrote
    /\ token_file[file_op.app].present
    /\ file_op.removed \in TokensOf(token_file[file_op.app].tokens)
    /\ file_op.removed \in TokensOf(load_tokens(token_file, file_op.app).tokens)

\* C40: getting a token by the name of a character returns a token of that
\* character or raises; it never returns the token of another character,
\* also when the refresh failed and generate() was called.
C40_GetReturnsNamedCharacter ==
    (token_op.op = "get" /\ token_op.cname \in CharacterNames
        /\ token_op.ret.kind = "token")
        => tokens[token_op.ret.index].character_name = token_op.cname

\* A get by name whose refresh failed returned the token generate() made
\* for the other character.
C40_Failure ==
    /\ token_op.op = "get" /\ token_op.cname = "A"
    /\ token_op.refresh_ret = "False"
    /\ token_op.generated
    /\ token_op.ret.kind = "token"
    /\ tokens[token_op.ret.index].character_name = "B"

\* The fills made for the tasks of a list.
RECURSIVE SumFills(_)
SumFills(ts) == IF ts = <<>> THEN 0 ELSE Head(ts).fills + SumFills(Tail(ts))
\* The attempts of a task that ended with a return or a transport fault of
\* async_request: an exception of the checker is neither.
AttemptsEnded(tk) == tk.calls - (IF tk.last = "raised" THEN 1 ELSE 0)

\* C31 as stated: one send updates the request counters of the record
\* once, for its final outcome, however many attempts the retry decorator
\* made.
C31_OncePerSend ==
    \A t \in TaskIds : tasks[t].pc = "done" => tasks[t].fills <= 1

\* C31, amended: the recorder is inside the retry decorator, so every
\* attempt of a send that began while recording was on and ended with a
\* return or a transport fault is recorded once, and record.requests
\* counts the attempts, not the sends.
C31_OncePerAttempt ==
    /\ \A t \in TaskIds :
         tasks[t].pc = "done" =>
            tasks[t].fills + tasks[t].unrecorded = AttemptsEnded(tasks[t])
    /\ (ncalls <= 1 /\ record_log.cleared = "none") => record.requests = SumFills(tasks)

\* A send of two attempts, answered 503 and then 200, was recorded twice.
C31_Witness ==
    \E t \in TaskIds :
        /\ tasks[t].pc = "done"
        /\ tasks[t].calls = 2
        /\ tasks[t].first = "status" /\ tasks[t].first_status = 503
        /\ tasks[t].last = "status" /\ tasks[t].last_status = StatusOk
        /\ tasks[t].fills = 2
        /\ call.kind = "single"
        /\ record.requests = 2
        /\ record.requests_failed = 1
        /\ record.requests_succeed = 1

\* C32: while recording is stopped no step of a call changes a field of
\* the record, and stopping or starting the recording leaves the record as
\* it is.
C32_StoppedRecordUnchanged ==
    [][/\ ((call.running \/ call'.running) /\ ~record_session) => record' = record
       /\ record_session' # record_session => record' = record]_vars

\* An attempt was recorded while recording was stopped.
C32_Failure ==
    /\ ~record_session
    /\ record_log.late
    /\ \E t \in TaskIds : tasks[t].record_on /\ tasks[t].fills >= 1

\* The earliest of a set of Expires headers.
Earliest(hints) == CHOOSE h \in hints : \A g \in hints : expires_dt(h) <= expires_dt(g)

\* C33: record.expires is the earliest Expires header among the responses
\* recorded since expires was last cleared, and None if none of them
\* carried one.
C33_EarliestExpires ==
    record.expires = IF record_log.seen = {} THEN NoExpires ELSE Earliest(record_log.seen)

\* Responses with the headers 1 and 2 were recorded and the record holds 1.
C33_Witness ==
    /\ record_log.seen = {1, 2}
    /\ record.expires = 1
    /\ record.requests_succeed >= 2

\* C37: requests is the sum of requests_succeed, requests_failed and
\* requests_blocked after any sequence of recorded attempts and clears.
C37_CountersAddUp ==
    record.requests = record.requests_succeed + record.requests_failed
                      + record.requests_blocked

\* After a clear of the request counters a fan-out was recorded with one
\* failed and two successful attempts.
C37_Witness ==
    /\ record_log.cleared = "requests"
    /\ record.requests = 3
    /\ record.requests_failed = 1
    /\ record.requests_succeed = 2
    /\ record.requests_blocked = 0

\* C34: every construction ESI() returns the same object, so all callers
\* share one connection pool, one checker and one record.
C34_Singleton ==
    \A g, h \in 1 .. Len(esi_handles) : esi_handles[g] = esi_handles[h]

\* Two constructions returned two objects with their own connection pool
\* and checker; a request recorded through the first is not in the record
\* of the second.
C34_Failure ==
    /\ Len(esi_handles) = 2
    /\ esi_handles[1] # esi_handles[2]
    /\ esi_objects[esi_handles[1]].session # esi_objects[esi_handles[2]].session
    /\ esi_objects[esi_handles[1]].checker # esi_objects[esi_handles[2]].checker
    /\ esi_objects[esi_handles[1]].requests = 1
    /\ esi_objects[esi_handles[2]].requests = 0

\* C35: on a cache miss the expiry given to the stored entry is the
\* keyword expires of the call, else the argument of the decorator, else
\* the Expires header recorded during the call, whatever the earlier calls
\* of the function were.
C35_ExpiryByPriority ==
    api_op.op = "miss" =>
        api_op.given = api_expires_priority(api_expires.decorator, api_op.kwd_expires,
                                            api_op.header)

\* A call without the keyword of a function decorated without the
\* argument, answered with the header 2, stored its entry with the header
\* 1 of an earlier call.
C35_Failure ==
    /\ api_op.op = "miss"
    /\ api_op.kwd_expires = Missing
    /\ api_expires.decorator = NoApiExpires
    /\ api_op.header = 2
    /\ api_op.given = ApiHeader(1)
    /\ api_op.closure = ApiHeader(1)
    /\ record.expires = 2

\* C36: a check made while the local copy of the board is more than 60
\* seconds old fetches the board before it answers, and a check made within
\* 60 seconds of the last retrieval does not fetch.
C36_FetchedEverySixtySeconds ==
    (status_op.op = "check" /\ status_op.had_copy)
        => (status_op.fetched <=> status_op.age > StatusTtl)

\* A check made 61 seconds or more after the last retrieval did not fetch
\* and answered from the old copy that the endpoint is up, while the
\* server reports it down.
C36_Failure ==
    /\ status_op.op = "check"
    /\ status_op.had_copy
    /\ status_op.age > StatusTtl
    /\ ~status_op.fetched
    /\ status_op.ret
    /\ status_op.endpoint \notin status_server
====
